---- MODULE Spec2Model ----
(***************************************************************************)
(* PhotonSR: the file-tree mutation engine of main.go (PerformReplacement, *)
(* PerformRestore, PerformClean, matchesPattern, createBackup, copyFile)   *)
(* over a model of the file system and of filepath.Walk.                   *)
(*                                                                         *)
(* Strings (file names, patterns, file contents, OldText, NewText) are     *)
(* sequences of one-character strings.  A path is the sequence of the      *)
(* names below opts.Dir; <<>> is opts.Dir itself.                          *)
(***************************************************************************)
EXTENDS Integers, Sequences, FiniteSets, TLC

VARIABLES fs, umask, opts, pc, todo, modifiedFiles, messages, filesProcessed,
          filesRestored, filesCleaned, firstEncounteredError, walkErr,
          ret, errLog, ioLog, fs0, calls, cli, wiz, conc

vars == <<fs, umask, opts, pc, todo, modifiedFiles, messages, filesProcessed,
          filesRestored, filesCleaned, firstEncounteredError, walkErr,
          ret, errLog, ioLog, fs0, calls, cli, wiz, conc>>

(***************************************************************************)
(* Bounds of the model.                                                    *)
(***************************************************************************)
\* engine invocations per behaviour
MaxCalls == 2

(***************************************************************************)
(* Characters and strings.                                                 *)
(***************************************************************************)
\* byte value of the characters used in names, patterns and contents
Code(c) ==
    CASE c = "*" -> 42 [] c = "-" -> 45 [] c = "." -> 46 [] c = "/" -> 47
      [] c = "?" -> 63 [] c = "[" -> 91 [] c = "\\" -> 92 [] c = "]" -> 93
      [] c = "^" -> 94 [] c = "a" -> 97 [] c = "b" -> 98 [] c = "c" -> 99
      [] c = "d" -> 100 [] c = "k" -> 107 [] c = "x" -> 120 [] c = "y" -> 121
      [] c = "e" -> 101 [] c = "f" -> 102 [] c = "i" -> 105 [] c = "l" -> 108
      [] c = "m" -> 109 [] c = "n" -> 110 [] c = "s" -> 115 [] c = "t" -> 116

Drop(s, n) == SubSeq(s, n + 1, Len(s))

Take(s, n) == SubSeq(s, 1, n)

\* strings.HasPrefix
HasPrefix(s, p) == Len(p) <= Len(s) /\ Take(s, Len(p)) = p

\* strings.HasSuffix
HasSuffix(s, suf) ==
    Len(suf) <= Len(s) /\ SubSeq(s, Len(s) - Len(suf) + 1, Len(s)) = suf

\* strings.TrimSuffix
TrimSuffix(s, suf) == IF HasSuffix(s, suf) THEN Take(s, Len(s) - Len(suf)) ELSE s

\* strings.Contains
Contains(s, sub) == \E i \in 0..Len(s) : HasPrefix(Drop(s, i), sub)

\* strings.ReplaceAll: the leftmost non-overlapping occurrences of old are
\* replaced; an empty old matches before every character and at the end
RECURSIVE ReplaceAll(_, _, _)
ReplaceAll(s, old, new) ==
    IF Len(old) = 0
    THEN IF Len(s) = 0 THEN new ELSE new \o <<Head(s)>> \o ReplaceAll(Tail(s), old, new)
    ELSE IF Len(s) = 0 THEN <<>>
    ELSE IF HasPrefix(s, old) THEN new \o ReplaceAll(Drop(s, Len(old)), old, new)
    ELSE <<Head(s)>> \o ReplaceAll(Tail(s), old, new)

\* byte-wise string order, as sort.Strings orders the names of a directory
RECURSIVE StrLess(_, _)
StrLess(a, b) ==
    IF Len(b) = 0 THEN FALSE
    ELSE IF Len(a) = 0 THEN TRUE
    ELSE IF Head(a) = Head(b) THEN StrLess(Tail(a), Tail(b))
    ELSE Code(Head(a)) < Code(Head(b))

\* a set of strings as the sorted sequence sort.Strings makes of it
RECURSIVE SortNames(_)
SortNames(S) ==
    IF S = {} THEN <<>>
    ELSE LET m == CHOOSE x \in S : \A y \in S \ {x} : StrLess(x, y)
         IN <<m>> \o SortNames(S \ {m})

(***************************************************************************)
(* filepath.Match, as matchesPattern calls it (path/filepath/match.go,     *)
(* the non-Windows build).                                                 *)
(***************************************************************************)
Separator == "/"

ErrBadPattern == "ErrBadPattern"

NoErr == "nil"

\* scanChunk: the index at which the chunk ends (the next '*' outside a range)
RECURSIVE ScanEnd(_, _, _)
ScanEnd(p, i, inrange) ==
    IF i > Len(p) THEN i - 1
    ELSE IF p[i] = "\\" THEN ScanEnd(p, (IF i + 1 <= Len(p) THEN i + 2 ELSE i + 1), inrange)
    ELSE IF p[i] = "[" THEN ScanEnd(p, i + 1, TRUE)
    ELSE IF p[i] = "]" THEN ScanEnd(p, i + 1, FALSE)
    ELSE IF p[i] = "*" /\ ~inrange THEN i - 1
    ELSE ScanEnd(p, i + 1, inrange)

RECURSIVE StripStars(_)
StripStars(p) == IF Len(p) > 0 /\ Head(p) = "*" THEN StripStars(Tail(p)) ELSE p

scanChunk(pattern) ==
    LET p == StripStars(pattern)
        e == ScanEnd(p, 1, FALSE)
    IN [star |-> Len(p) < Len(pattern), chunk |-> Take(p, e), rest |-> Drop(p, e)]

\* getEsc: one (possibly escaped) character of a character class
getEsc(chunk) ==
    IF Len(chunk) = 0 \/ Head(chunk) = "-" \/ Head(chunk) = "]"
    THEN [r |-> 0, nchunk |-> chunk, err |-> ErrBadPattern]
    ELSE LET c == IF Head(chunk) = "\\" THEN Tail(chunk) ELSE chunk
         IN IF Len(c) = 0 THEN [r |-> 0, nchunk |-> c, err |-> ErrBadPattern]
            ELSE [r |-> Code(Head(c)), nchunk |-> Tail(c),
                  err |-> IF Len(c) = 1 THEN ErrBadPattern ELSE NoErr]

\* the "parse all ranges" loop of matchChunk; r is the rune under test
RECURSIVE ParseRanges(_, _, _, _)
ParseRanges(chunk, r, match, nrange) ==
    IF Len(chunk) > 0 /\ Head(chunk) = "]" /\ nrange > 0
    THEN [chunk |-> Tail(chunk), match |-> match, err |-> NoErr]
    ELSE LET lo == getEsc(chunk)
         IN IF lo.err # NoErr THEN [chunk |-> <<>>, match |-> FALSE, err |-> lo.err]
            ELSE IF Head(lo.nchunk) = "-"
            THEN LET hi == getEsc(Tail(lo.nchunk))
                 IN IF hi.err # NoErr
                    THEN [chunk |-> <<>>, match |-> FALSE, err |-> hi.err]
                    ELSE ParseRanges(hi.nchunk, r,
                                     match \/ (lo.r <= r /\ r <= hi.r), nrange + 1)
            ELSE ParseRanges(lo.nchunk, r, match \/ lo.r = r, nrange + 1)

\* matchChunk: after the match has failed the chunk is still parsed, so a
\* malformed chunk is reported whatever the name is
RECURSIVE MatchChunkFrom(_, _, _)
MatchChunkFrom(chunk, s, wasFailed) ==
    IF Len(chunk) = 0
    THEN IF wasFailed THEN [rest |-> <<>>, ok |-> FALSE, err |-> NoErr]
         ELSE [rest |-> s, ok |-> TRUE, err |-> NoErr]
    ELSE LET failed == wasFailed \/ Len(s) = 0
         IN CASE Head(chunk) = "[" ->
                   LET r == IF failed THEN 0 ELSE Code(Head(s))
                       s1 == IF failed THEN s ELSE Tail(s)
                       c1 == Tail(chunk)
                       negated == Len(c1) > 0 /\ Head(c1) = "^"
                       c2 == IF negated THEN Tail(c1) ELSE c1
                       pr == ParseRanges(c2, r, FALSE, 0)
                   IN IF pr.err # NoErr
                      THEN [rest |-> <<>>, ok |-> FALSE, err |-> pr.err]
                      ELSE MatchChunkFrom(pr.chunk, s1, failed \/ (pr.match = negated))
              [] Head(chunk) = "?" ->
                   MatchChunkFrom(Tail(chunk), (IF failed THEN s ELSE Tail(s)),
                                  failed \/ Head(s) = Separator)
              [] Head(chunk) = "\\" ->
                   IF Len(chunk) = 1
                   THEN [rest |-> <<>>, ok |-> FALSE, err |-> ErrBadPattern]
                   ELSE MatchChunkFrom(Drop(chunk, 2), (IF failed THEN s ELSE Tail(s)),
                                       failed \/ chunk[2] # Head(s))
              [] OTHER ->
                   MatchChunkFrom(Tail(chunk), (IF failed THEN s ELSE Tail(s)),
                                  failed \/ Head(chunk) # Head(s))

matchChunk(chunk, s) == MatchChunkFrom(chunk, s, FALSE)

\* the closing loop of Match: the rest of the pattern must be well-formed
RECURSIVE RestErr(_)
RestErr(pattern) ==
    IF Len(pattern) = 0 THEN NoErr
    ELSE LET sc == scanChunk(pattern)
             mc == matchChunk(sc.chunk, <<>>)
         IN IF mc.err # NoErr THEN mc.err ELSE RestErr(sc.rest)

RECURSIVE Match(_, _)
RECURSIVE StarLoop(_, _, _, _)
\* the "Look for match skipping i+1 bytes" loop; i counts the bytes skipped
StarLoop(chunk, rest, name, i) ==
    IF i >= Len(name) \/ name[i + 1] = Separator
    THEN [matched |-> FALSE, err |-> RestErr(rest)]
    ELSE LET mc == matchChunk(chunk, Drop(name, i + 1))
         IN IF mc.ok
            THEN IF Len(rest) = 0 /\ Len(mc.rest) > 0
                 THEN StarLoop(chunk, rest, name, i + 1)
                 ELSE Match(rest, mc.rest)
            ELSE IF mc.err # NoErr THEN [matched |-> FALSE, err |-> mc.err]
            ELSE StarLoop(chunk, rest, name, i + 1)

Match(pattern, name) ==
    IF Len(pattern) = 0 THEN [matched |-> Len(name) = 0, err |-> NoErr]
    ELSE LET sc == scanChunk(pattern)
         IN IF sc.star /\ Len(sc.chunk) = 0
            THEN [matched |-> \A i \in 1..Len(name) : name[i] # Separator,
                  err |-> NoErr]
            ELSE LET mc == matchChunk(sc.chunk, name)
                 IN IF mc.ok /\ (Len(mc.rest) = 0 \/ Len(sc.rest) > 0)
                    THEN Match(sc.rest, mc.rest)
                    ELSE IF mc.err # NoErr THEN [matched |-> FALSE, err |-> mc.err]
                    ELSE IF sc.star THEN StarLoop(sc.chunk, sc.rest, name, 0)
                    ELSE [matched |-> FALSE, err |-> RestErr(sc.rest)]

\* mutant of matchesPattern: names that end in ".bak" are never matched
matchesPatternSkipsBak(filename, pattern) ==
    IF HasSuffix(filename, <<".", "b", "a", "k">>)
    THEN [matched |-> FALSE, err |-> NoErr]
    ELSE IF pattern = <<>> \/ pattern = <<"*">>
    THEN [matched |-> TRUE, err |-> NoErr]
    ELSE Match(pattern, filename)

\* mutant of matchesPattern: the error of Match is dropped
matchesPatternIgnoringError(filename, pattern) ==
    [matched |-> pattern = <<>> \/ pattern = <<"*">> \/ Match(pattern, filename).matched,
     err |-> NoErr]

\* matchesPattern: "" and "*" match every name without consulting Match
matchesPattern(filename, pattern) ==
    IF pattern = <<>> \/ pattern = <<"*">>
    THEN [matched |-> TRUE, err |-> NoErr]
    ELSE Match(pattern, filename)

(***************************************************************************)
(* The file system below opts.Dir, as the os package shows it to an        *)
(* unprivileged owner of the tree.  A node is a regular file or a          *)
(* directory; mode is its set of permission bits.                          *)
(***************************************************************************)
File(content, mode) == [kind |-> "file", content |-> content, mode |-> mode]

Dir(mode) == [kind |-> "dir", content |-> <<>>, mode |-> mode]

Root == <<>>

Parent(p) == Take(p, Len(p) - 1)

Base(p) == p[Len(p)]

Join(dir, name) == Append(dir, name)

Exists(f, p) == p \in DOMAIN f

IsDir(f, p) == Exists(f, p) /\ f[p].kind = "dir"

IsRegular(f, p) == Exists(f, p) /\ f[p].kind = "file"

\* every directory on the way to p can be searched
Reachable(f, p) ==
    \A i \in 0..(Len(p) - 1) : IsDir(f, Take(p, i)) /\ "x" \in f[Take(p, i)].mode

\* os.Lstat / os.Stat succeed
LstatOK(f, p) == Exists(f, p) /\ Reachable(f, p)

\* readDirNames succeeds
ReadDirOK(f, p) == LstatOK(f, p) /\ IsDir(f, p) /\ "r" \in f[p].mode

\* the entries of directory p
Names(f, p) == {q[Len(q)] : q \in {r \in DOMAIN f : Len(r) = Len(p) + 1 /\ Take(r, Len(p)) = p}}

\* os.ReadFile succeeds
ReadFileOK(f, p) == LstatOK(f, p) /\ IsRegular(f, p) /\ "r" \in f[p].mode

\* an entry can be created in, or removed from, the directory of p
DirWritable(f, p) ==
    /\ Len(p) > 0
    /\ Len(Base(p)) > 0
    /\ LstatOK(f, Parent(p))
    /\ IsDir(f, Parent(p))
    /\ {"w", "x"} \subseteq f[Parent(p)].mode

\* os.WriteFile succeeds: O_WRONLY|O_CREATE|O_TRUNC
WriteFileOK(f, p) ==
    IF Exists(f, p)
    THEN LstatOK(f, p) /\ IsRegular(f, p) /\ "w" \in f[p].mode
    ELSE DirWritable(f, p)

Put(f, p, node) == [q \in DOMAIN f \cup {p} |-> IF q = p THEN node ELSE f[q]]

Del(f, p) == [q \in DOMAIN f \ {p} |-> f[q]]

\* os.WriteFile: perm (less the umask) is applied only when the file is created
WriteFile(f, p, data, perm, um) ==
    IF ~WriteFileOK(f, p) THEN f
    ELSE IF Exists(f, p) THEN Put(f, p, File(data, f[p].mode))
    ELSE Put(f, p, File(data, perm \ um))

\* os.Rename of a regular file succeeds
RenameOK(f, old, new) ==
    /\ LstatOK(f, old)
    /\ DirWritable(f, old)
    /\ DirWritable(f, new)
    /\ ~IsDir(f, new)

\* mutant of Rename: the file is copied to the new name and the old name stays
RenameKeepsSource(f, old, new) == IF RenameOK(f, old, new) THEN Put(f, new, f[old]) ELSE f

Rename(f, old, new) == IF RenameOK(f, old, new) THEN Put(Del(f, old), new, f[old]) ELSE f

\* mutant of Remove: success is reported but the file stays
RemoveNothing(f, p) == f

\* os.Remove of a regular file succeeds
RemoveOK(f, p) == LstatOK(f, p) /\ DirWritable(f, p)

Remove(f, p) == IF RemoveOK(f, p) THEN Del(f, p) ELSE f

(***************************************************************************)
(* Errors.                                                                 *)
(***************************************************************************)
Nil == [kind |-> "nil", path |-> <<>>]

Err(kind, p) == [kind |-> kind, path |-> p]

\* mutant of Record: the latest error replaces the recorded one
RecordLast(first, e) == e

\* mutant of Record: no error is ever recorded
RecordNothing(first, e) == first

\* if firstEncounteredError == nil { firstEncounteredError = e }
Record(first, e) == IF first = Nil THEN e ELSE first

\* the same over the errors of one callback, in the order they occur
RECURSIVE RecordAll(_, _)
RecordAll(first, es) ==
    IF es = <<>> THEN first ELSE RecordAll(Record(first, Head(es)), Tail(es))

BAK == <<".", "b", "a", "k">>

(***************************************************************************)
(* filepath.Walk: the entries still to visit are kept in todo, first one   *)
(* next.  The names of a directory are read and sorted when the directory  *)
(* is visited; each entry is lstat'ed when its turn comes.                 *)
(***************************************************************************)
\* mutant of WalkEntry: a directory below the root is handed to the callback
\* as a regular file
WalkEntryDirAsFile(f, p) ==
    IF ~LstatOK(f, p) THEN "lstat"
    ELSE IF ~IsDir(f, p) \/ p # Root THEN "file"
    ELSE IF ~ReadDirOK(f, p) THEN "readdir"
    ELSE "dir"

\* what walk hands to the callback for path p: "lstat" is a failed Lstat
\* (info is nil), "readdir" a directory whose names cannot be read
WalkEntry(f, p) ==
    IF ~LstatOK(f, p) THEN "lstat"
    ELSE IF ~IsDir(f, p) THEN "file"
    ELSE IF ~ReadDirOK(f, p) THEN "readdir"
    ELSE "dir"

\* mutant of Children: walk is handed the entries of a directory twice
ChildrenTwice(f, p) ==
    LET RECURSIVE J(_, _)
        J(dir, names) ==
            IF names = <<>> THEN <<>> ELSE <<Join(dir, Head(names))>> \o J(dir, Tail(names))
        once == J(p, SortNames(Names(f, p)))
    IN once \o once

\* the sorted entries of directory p, as paths
RECURSIVE JoinAll(_, _)
JoinAll(dir, names) ==
    IF names = <<>> THEN <<>> ELSE <<Join(dir, Head(names))>> \o JoinAll(dir, Tail(names))

Children(f, p) == JoinAll(p, SortNames(Names(f, p)))

\* the I/O calls walk makes for p before the callback runs
WalkIO(f, p) ==
    IF LstatOK(f, p) /\ IsDir(f, p)
    THEN <<[op |-> "lstat", path |-> p], [op |-> "readdir", path |-> p]>>
    ELSE <<[op |-> "lstat", path |-> p]>>

IO(op, p) == [op |-> op, path |-> p]

(***************************************************************************)
(* The requests and trees the model starts from.                           *)
(***************************************************************************)
NameA == <<"a">>

NameC == <<"c">>

RW == {"r", "w"}

RWX == {"r", "w", "x"}

Patterns == {<<"*">>, <<"a">>, <<"[", "a">>}

OldTexts == {<<>>, <<"x">>, <<"x", "y">>}

NewTexts == {<<"y">>, <<"x">>}

Requests ==
    [Pattern : Patterns, OldText : OldTexts, NewText : NewTexts, ShouldBackup : BOOLEAN]

None == [kind |-> "none"]

\* a directory and the regular file c.bak in it
SubTree(p, mode) == {<<p, Dir(mode)>>, <<Join(p, NameC \o BAK), File(<<"x">>, RW)>>}

MkFs(pairs) ==
    LET real == {pr \in pairs : pr[2] # None}
    IN [p \in {pr[1] : pr \in real} |-> (CHOOSE pr \in real : pr[1] = p)[2]]

Trees ==
    {MkFs({<<Root, r>>, <<<<NameA>>, a>>, <<<<NameA \o BAK>>, ab>>} \cup sub) :
        r \in {Dir(RWX), Dir({"r", "x"})},
        a \in {None, File(<<"x">>, RW), File(<<"x">>, {"r"}), File(<<"x">>, {"w"}),
               File(<<"y">>, {"r", "w", "gw"}), File(<<"x", "x", "y">>, RW)},
        ab \in {None, File(<<"x">>, RW)},
        sub \in {{}, SubTree(<<BAK>>, RWX), SubTree(<<BAK>>, {"w", "x"}),
                 SubTree(<<BAK>>, {"r", "w"})}}
    \cup {MkFs({}), MkFs({<<Root, Dir({"w", "x"})>>})}

Umasks == {{}, {"gw"}}

\* the umask only shows on a tree that has a group-writable file
UmasksFor(f) == IF \E p \in DOMAIN f : "gw" \in f[p].mode THEN Umasks ELSE {{"gw"}}

\* no process of main, no wizard and no concurrent invocations: the engine
\* is called directly
NoCli == [phase |-> "none"]

NoWiz == [step |-> "none"]

NoConc == <<>>

Init ==
    /\ fs \in Trees
    /\ umask \in UmasksFor(fs)
    /\ opts \in Requests
    /\ pc = "idle"
    /\ todo = <<>>
    /\ modifiedFiles = <<>>
    /\ messages = <<>>
    /\ filesProcessed = 0
    /\ filesRestored = 0
    /\ filesCleaned = 0
    /\ firstEncounteredError = Nil
    /\ walkErr = Nil
    /\ ret = [op |-> "none", paths |-> <<>>, count |-> 0, err |-> Nil]
    /\ errLog = <<>>
    /\ ioLog = <<>>
    /\ fs0 = fs
    /\ calls = <<>>
    /\ cli = NoCli
    /\ wiz = NoWiz
    /\ conc = NoConc

(***************************************************************************)
(* Helper functions of main.go.                                            *)
(***************************************************************************)
\* copyFile: ReadFile(src), Stat(src), WriteFile(dst, input, info.Mode())
copyFileOK(f, src, dst) == ReadFileOK(f, src) /\ LstatOK(f, src) /\ WriteFileOK(f, dst)

copyFile(f, src, dst, um) ==
    IF copyFileOK(f, src, dst) THEN WriteFile(f, dst, f[src].content, f[src].mode, um)
    ELSE f

copyFileIO(f, src, dst) ==
    <<IO("read", src)>>
    \o (IF ReadFileOK(f, src) THEN <<IO("stat", src)>> ELSE <<>>)
    \o (IF ReadFileOK(f, src) /\ LstatOK(f, src) THEN <<IO("write", dst)>> ELSE <<>>)

\* backupPath := srcPath + ".bak"
backupPath(srcPath) == Join(Parent(srcPath), Base(srcPath) \o BAK)

createBackupOK(f, srcPath) == copyFileOK(f, srcPath, backupPath(srcPath))

\* mutant of createBackup: the backup is written to ".bak", without the name
\* of the source
createBackupUnnamed(f, srcPath, um) == copyFile(f, srcPath, Join(Parent(srcPath), BAK), um)

createBackup(f, srcPath, um) == copyFile(f, srcPath, backupPath(srcPath), um)

\* originalPath := strings.TrimSuffix(path, ".bak")
originalPath(path) == Join(Parent(path), TrimSuffix(Base(path), BAK))

(***************************************************************************)
(* PerformReplacement.                                                     *)
(***************************************************************************)
\* mutant of ReplaceFile: a failed write is not reported
ReplaceFileDropsWriteError(f, p, o, um) ==
    LET bakTried == o.ShouldBackup
        bakOK == bakTried /\ createBackupOK(f, p)
        f1 == IF bakTried THEN createBackup(f, p, um) ELSE f
        readOK == ReadFileOK(f1, p)
        content == f1[p].content
        hit == readOK /\ Contains(content, o.OldText)
        writeOK == hit /\ WriteFileOK(f1, p)
        f2 == IF hit
              THEN WriteFile(f1, p, ReplaceAll(content, o.OldText, o.NewText), f[p].mode, um)
              ELSE f1
    IN [fs |-> f2,
        processed |-> 1,
        errs |-> (IF bakTried /\ ~bakOK THEN <<Err("backup", p)>> ELSE <<>>)
                 \o (IF ~readOK THEN <<Err("read", p)>> ELSE <<>>)
                 \o <<>>,
        modified |-> writeOK,
        io |-> (IF bakTried THEN copyFileIO(f, p, backupPath(p)) ELSE <<>>)
               \o <<IO("read", p)>>
               \o (IF hit THEN <<IO("write", p)>> ELSE <<>>)]

\* mutant of ReplaceFile: a file whose content would not change is not written
ReplaceFileSkipsIdentical(f, p, o, um) ==
    LET bakTried == o.ShouldBackup
        bakOK == bakTried /\ createBackupOK(f, p)
        f1 == IF bakTried THEN createBackup(f, p, um) ELSE f
        readOK == ReadFileOK(f1, p)
        content == f1[p].content
        hit == readOK /\ Contains(content, o.OldText)
                     /\ ReplaceAll(content, o.OldText, o.NewText) # content
        writeOK == hit /\ WriteFileOK(f1, p)
        f2 == IF hit
              THEN WriteFile(f1, p, ReplaceAll(content, o.OldText, o.NewText), f[p].mode, um)
              ELSE f1
    IN [fs |-> f2,
        processed |-> 1,
        errs |-> (IF bakTried /\ ~bakOK THEN <<Err("backup", p)>> ELSE <<>>)
                 \o (IF ~readOK THEN <<Err("read", p)>> ELSE <<>>)
                 \o (IF hit /\ ~writeOK THEN <<Err("write", p)>> ELSE <<>>),
        modified |-> writeOK,
        io |-> (IF bakTried THEN copyFileIO(f, p, backupPath(p)) ELSE <<>>)
               \o <<IO("read", p)>>
               \o (IF hit THEN <<IO("write", p)>> ELSE <<>>)]

\* mutant of ReplaceFile: the backup is made only of a file that contains OldText
ReplaceFileBacksUpOnHit(f, p, o, um) ==
    LET bakTried == o.ShouldBackup /\ ReadFileOK(f, p) /\ Contains(f[p].content, o.OldText)
        bakOK == bakTried /\ createBackupOK(f, p)
        f1 == IF bakTried THEN createBackup(f, p, um) ELSE f
        readOK == ReadFileOK(f1, p)
        content == f1[p].content
        hit == readOK /\ Contains(content, o.OldText)
        writeOK == hit /\ WriteFileOK(f1, p)
        f2 == IF hit
              THEN WriteFile(f1, p, ReplaceAll(content, o.OldText, o.NewText), f[p].mode, um)
              ELSE f1
    IN [fs |-> f2,
        processed |-> 1,
        errs |-> (IF bakTried /\ ~bakOK THEN <<Err("backup", p)>> ELSE <<>>)
                 \o (IF ~readOK THEN <<Err("read", p)>> ELSE <<>>)
                 \o (IF hit /\ ~writeOK THEN <<Err("write", p)>> ELSE <<>>),
        modified |-> writeOK,
        io |-> (IF bakTried THEN copyFileIO(f, p, backupPath(p)) ELSE <<>>)
               \o <<IO("read", p)>>
               \o (IF hit THEN <<IO("write", p)>> ELSE <<>>)]

\* mutant of ReplaceFile: the file is rewritten whether or not it contains OldText
ReplaceFileAlwaysRewrites(f, p, o, um) ==
    LET bakTried == o.ShouldBackup
        bakOK == bakTried /\ createBackupOK(f, p)
        f1 == IF bakTried THEN createBackup(f, p, um) ELSE f
        readOK == ReadFileOK(f1, p)
        content == f1[p].content
        hit == readOK
        writeOK == hit /\ WriteFileOK(f1, p)
        f2 == IF hit
              THEN WriteFile(f1, p, ReplaceAll(content, o.OldText, o.NewText), f[p].mode, um)
              ELSE f1
    IN [fs |-> f2,
        processed |-> 1,
        errs |-> (IF bakTried /\ ~bakOK THEN <<Err("backup", p)>> ELSE <<>>)
                 \o (IF ~readOK THEN <<Err("read", p)>> ELSE <<>>)
                 \o (IF hit /\ ~writeOK THEN <<Err("write", p)>> ELSE <<>>),
        modified |-> writeOK,
        io |-> (IF bakTried THEN copyFileIO(f, p, backupPath(p)) ELSE <<>>)
               \o <<IO("read", p)>>
               \o (IF hit THEN <<IO("write", p)>> ELSE <<>>)]

\* mutant of ReplaceFile: the file is counted only once it has been read
ReplaceFileCountsAfterRead(f, p, o, um) ==
    LET bakTried == o.ShouldBackup
        bakOK == bakTried /\ createBackupOK(f, p)
        f1 == IF bakTried THEN createBackup(f, p, um) ELSE f
        readOK == ReadFileOK(f1, p)
        content == f1[p].content
        hit == readOK /\ Contains(content, o.OldText)
        writeOK == hit /\ WriteFileOK(f1, p)
        f2 == IF hit
              THEN WriteFile(f1, p, ReplaceAll(content, o.OldText, o.NewText), f[p].mode, um)
              ELSE f1
    IN [fs |-> f2,
        processed |-> IF readOK THEN 1 ELSE 0,
        errs |-> (IF bakTried /\ ~bakOK THEN <<Err("backup", p)>> ELSE <<>>)
                 \o (IF ~readOK THEN <<Err("read", p)>> ELSE <<>>)
                 \o (IF hit /\ ~writeOK THEN <<Err("write", p)>> ELSE <<>>),
        modified |-> writeOK,
        io |-> (IF bakTried THEN copyFileIO(f, p, backupPath(p)) ELSE <<>>)
               \o <<IO("read", p)>>
               \o (IF hit THEN <<IO("write", p)>> ELSE <<>>)]

\* mutant of ReplaceFile: the callback returns when the backup fails
ReplaceFileStopsOnBackupError(f, p, o, um) ==
    LET bakTried == o.ShouldBackup
        bakOK == bakTried /\ createBackupOK(f, p)
        f1 == IF bakTried THEN createBackup(f, p, um) ELSE f
        go == ~bakTried \/ bakOK
        readOK == ReadFileOK(f1, p)
        content == f1[p].content
        hit == go /\ readOK /\ Contains(content, o.OldText)
        writeOK == hit /\ WriteFileOK(f1, p)
        f2 == IF hit
              THEN WriteFile(f1, p, ReplaceAll(content, o.OldText, o.NewText), f[p].mode, um)
              ELSE f1
    IN [fs |-> f2,
        processed |-> 1,
        errs |-> (IF bakTried /\ ~bakOK THEN <<Err("backup", p)>> ELSE <<>>)
                 \o (IF go /\ ~readOK THEN <<Err("read", p)>> ELSE <<>>)
                 \o (IF hit /\ ~writeOK THEN <<Err("write", p)>> ELSE <<>>),
        modified |-> writeOK,
        io |-> (IF bakTried THEN copyFileIO(f, p, backupPath(p)) ELSE <<>>)
               \o (IF go THEN <<IO("read", p)>> ELSE <<>>)
               \o (IF hit THEN <<IO("write", p)>> ELSE <<>>)]

\* mutant of ReplaceFile: the file is listed as modified whether or not the
\* write succeeded
ReplaceFileListsFailedWrite(f, p, o, um) ==
    LET bakTried == o.ShouldBackup
        bakOK == bakTried /\ createBackupOK(f, p)
        f1 == IF bakTried THEN createBackup(f, p, um) ELSE f
        readOK == ReadFileOK(f1, p)
        content == f1[p].content
        hit == readOK /\ Contains(content, o.OldText)
        writeOK == hit /\ WriteFileOK(f1, p)
        f2 == IF hit
              THEN WriteFile(f1, p, ReplaceAll(content, o.OldText, o.NewText), f[p].mode, um)
              ELSE f1
    IN [fs |-> f2,
        processed |-> 1,
        errs |-> (IF bakTried /\ ~bakOK THEN <<Err("backup", p)>> ELSE <<>>)
                 \o (IF ~readOK THEN <<Err("read", p)>> ELSE <<>>)
                 \o (IF hit /\ ~writeOK THEN <<Err("write", p)>> ELSE <<>>),
        modified |-> hit,
        io |-> (IF bakTried THEN copyFileIO(f, p, backupPath(p)) ELSE <<>>)
               \o <<IO("read", p)>>
               \o (IF hit THEN <<IO("write", p)>> ELSE <<>>)]

\* mutant of ReplaceFile: the write goes ahead after a failed read
ReplaceFileWritesUnread(f, p, o, um) ==
    LET bakTried == o.ShouldBackup
        bakOK == bakTried /\ createBackupOK(f, p)
        f1 == IF bakTried THEN createBackup(f, p, um) ELSE f
        readOK == ReadFileOK(f1, p)
        content == f1[p].content
        hit == Contains(content, o.OldText)
        writeOK == hit /\ WriteFileOK(f1, p)
        f2 == IF hit
              THEN WriteFile(f1, p, ReplaceAll(content, o.OldText, o.NewText), f[p].mode, um)
              ELSE f1
    IN [fs |-> f2,
        processed |-> 1,
        errs |-> (IF bakTried /\ ~bakOK THEN <<Err("backup", p)>> ELSE <<>>)
                 \o (IF ~readOK THEN <<Err("read", p)>> ELSE <<>>)
                 \o (IF hit /\ ~writeOK THEN <<Err("write", p)>> ELSE <<>>),
        modified |-> writeOK,
        io |-> (IF bakTried THEN copyFileIO(f, p, backupPath(p)) ELSE <<>>)
               \o <<IO("read", p)>>
               \o (IF hit THEN <<IO("write", p)>> ELSE <<>>)]

\* the callback's work on a regular file p that matched the pattern: count
\* it, back it up if asked to, read it, and rewrite it when the content
\* contains OldText
ReplaceFile(f, p, o, um) ==
    LET bakTried == o.ShouldBackup
        bakOK == bakTried /\ createBackupOK(f, p)
        f1 == IF bakTried THEN createBackup(f, p, um) ELSE f
        readOK == ReadFileOK(f1, p)
        content == f1[p].content
        hit == readOK /\ Contains(content, o.OldText)
        writeOK == hit /\ WriteFileOK(f1, p)
        f2 == IF hit
              THEN WriteFile(f1, p, ReplaceAll(content, o.OldText, o.NewText), f[p].mode, um)
              ELSE f1
    IN [fs |-> f2,
        processed |-> 1,
        errs |-> (IF bakTried /\ ~bakOK THEN <<Err("backup", p)>> ELSE <<>>)
                 \o (IF ~readOK THEN <<Err("read", p)>> ELSE <<>>)
                 \o (IF hit /\ ~writeOK THEN <<Err("write", p)>> ELSE <<>>),
        modified |-> writeOK,
        io |-> (IF bakTried THEN copyFileIO(f, p, backupPath(p)) ELSE <<>>)
               \o <<IO("read", p)>>
               \o (IF hit THEN <<IO("write", p)>> ELSE <<>>)]

\* mutant of InvalidRequest: no request is rejected
AnyRequestValid(o) == FALSE

\* if opts.OldText == "" { return nil, 0, error }
InvalidRequest(o) == o.OldText = <<>>

\* PerformReplacement up to the call of filepath.Walk; an empty OldText
\* returns at once
StartReplace ==
    /\ pc = "idle"
    /\ Len(calls) < MaxCalls
    /\ fs0' = fs
    /\ errLog' = <<>>
    /\ ioLog' = <<>>
    /\ modifiedFiles' = <<>>
    /\ filesProcessed' = 0
    /\ firstEncounteredError' = Nil
    /\ walkErr' = Nil
    /\ IF InvalidRequest(opts)
       THEN /\ ret' = [op |-> "replace", paths |-> <<>>, count |-> 0,
                       err |-> Err("empty", Root)]
            /\ calls' = Append(calls, [op |-> "replace", ret |-> ret', before |-> fs,
                                       after |-> fs, errs |-> <<>>, io |-> <<>>])
            /\ UNCHANGED <<pc, todo>>
       ELSE /\ pc' = "replace"
            /\ todo' = <<Root>>
            /\ UNCHANGED <<ret, calls>>
    /\ UNCHANGED <<fs, umask, opts, messages, filesRestored, filesCleaned>>
    /\ UNCHANGED <<cli, wiz, conc>>

\* one call of the walk callback of PerformReplacement
ReplaceVisit ==
    /\ pc = "replace"
    /\ todo # <<>>
    /\ LET p == Head(todo)
           entry == WalkEntry(fs, p)
           m == matchesPattern(Base(p), opts.Pattern)
       IN CASE entry \in {"lstat", "readdir"} ->
                 /\ firstEncounteredError' = Record(firstEncounteredError, Err("access", p))
                 /\ errLog' = Append(errLog, Err("access", p))
                 /\ ioLog' = ioLog \o WalkIO(fs, p)
                 /\ todo' = Tail(todo)
                 /\ UNCHANGED <<fs, modifiedFiles, filesProcessed, walkErr>>
            [] entry = "dir" ->
                 /\ todo' = Children(fs, p) \o Tail(todo)
                 /\ ioLog' = ioLog \o WalkIO(fs, p)
                 /\ UNCHANGED <<fs, modifiedFiles, filesProcessed, walkErr,
                                firstEncounteredError, errLog>>
            [] entry = "file" /\ m.err # NoErr ->
                 /\ walkErr' = Err("pattern", opts.Pattern)
                 /\ todo' = <<>>
                 /\ ioLog' = ioLog \o WalkIO(fs, p)
                 /\ UNCHANGED <<fs, modifiedFiles, filesProcessed,
                                firstEncounteredError, errLog>>
            [] entry = "file" /\ m.err = NoErr /\ ~m.matched ->
                 /\ todo' = Tail(todo)
                 /\ ioLog' = ioLog \o WalkIO(fs, p)
                 /\ UNCHANGED <<fs, modifiedFiles, filesProcessed, walkErr,
                                firstEncounteredError, errLog>>
            [] entry = "file" /\ m.err = NoErr /\ m.matched ->
               \E rf \in {ReplaceFile(fs, p, opts, umask)} :
                 /\ filesProcessed' = filesProcessed + rf.processed
                 /\ fs' = rf.fs
                 /\ firstEncounteredError' = RecordAll(firstEncounteredError, rf.errs)
                 /\ errLog' = errLog \o rf.errs
                 /\ modifiedFiles' =
                        IF rf.modified THEN Append(modifiedFiles, p) ELSE modifiedFiles
                 /\ ioLog' = ioLog \o WalkIO(fs, p) \o rf.io
                 /\ todo' = Tail(todo)
                 /\ UNCHANGED walkErr
    /\ UNCHANGED <<umask, opts, pc, messages, filesRestored, filesCleaned, ret, fs0, calls>>
    /\ UNCHANGED <<cli, wiz, conc>>

\* mutant of ReplaceResult: the syntax of the pattern is checked when the
\* traversal has returned
ReplaceResultChecksPattern ==
    [op |-> "replace", paths |-> modifiedFiles, count |-> filesProcessed,
     err |-> IF walkErr # Nil \/ Match(opts.Pattern, <<>>).err # NoErr
             THEN Err("pattern", opts.Pattern) ELSE firstEncounteredError]

\* mutant of ReplaceResult: a recorded error is returned before the error of
\* filepath.Walk
ReplaceResultFirstErrorWins ==
    [op |-> "replace", paths |-> modifiedFiles, count |-> filesProcessed,
     err |-> IF firstEncounteredError # Nil THEN firstEncounteredError ELSE walkErr]

\* mutant of ReplaceResult: the error of filepath.Walk is dropped
ReplaceResultDropsWalkErr ==
    [op |-> "replace", paths |-> modifiedFiles, count |-> filesProcessed,
     err |-> firstEncounteredError]

\* the return of PerformReplacement once filepath.Walk has returned
ReplaceResult ==
    [op |-> "replace", paths |-> modifiedFiles, count |-> filesProcessed,
     err |-> IF walkErr # Nil THEN walkErr ELSE firstEncounteredError]

ReplaceReturn ==
    /\ pc = "replace"
    /\ todo = <<>>
    /\ ret' = ReplaceResult
    /\ calls' = Append(calls, [op |-> "replace", ret |-> ret', before |-> fs0,
                               after |-> fs, errs |-> errLog, io |-> ioLog])
    /\ pc' = "idle"
    /\ UNCHANGED <<fs, umask, opts, todo, modifiedFiles, messages, filesProcessed,
                   filesRestored, filesCleaned, firstEncounteredError, walkErr,
                   errLog, ioLog, fs0>>
    /\ UNCHANGED <<cli, wiz, conc>>

(***************************************************************************)
(* PerformRestore.                                                         *)
(***************************************************************************)
NoBakToRestore == [kind |-> "NoBakFound", op |-> "restore"]

NoBakToClean == [kind |-> "NoBakFound", op |-> "clean"]

\* the "No .bak files found ..." message of an engine
NoBakMessage(op) == IF op = "restore" THEN NoBakToRestore ELSE NoBakToClean

\* mutant of IsBackupFile: the suffix test is missing
IsAnyFile(f, p) == ~IsDir(f, p)

\* info.IsDir() || !strings.HasSuffix(info.Name(), ".bak") is false
IsBackupFile(f, p) == ~IsDir(f, p) /\ HasSuffix(Base(p), BAK)

StartRestore ==
    /\ pc = "idle"
    /\ Len(calls) < MaxCalls
    /\ pc' = "restore"
    /\ todo' = <<Root>>
    /\ fs0' = fs
    /\ errLog' = <<>>
    /\ ioLog' = <<>>
    /\ messages' = <<>>
    /\ filesRestored' = 0
    /\ firstEncounteredError' = Nil
    /\ walkErr' = Nil
    /\ UNCHANGED <<fs, umask, opts, modifiedFiles, filesProcessed, filesCleaned, ret, calls>>
    /\ UNCHANGED <<cli, wiz, conc>>

\* one call of the walk callback of PerformRestore
RestoreVisit ==
    /\ pc = "restore"
    /\ todo # <<>>
    /\ LET p == Head(todo)
           entry == WalkEntry(fs, p)
       IN CASE entry \in {"lstat", "readdir"} ->
                 /\ firstEncounteredError' = Record(firstEncounteredError, Err("access", p))
                 /\ errLog' = Append(errLog, Err("access", p))
                 /\ ioLog' = ioLog \o WalkIO(fs, p)
                 /\ todo' = Tail(todo)
                 /\ UNCHANGED <<fs, messages, filesRestored>>
            [] entry = "dir" ->
                 /\ todo' = Children(fs, p) \o Tail(todo)
                 /\ ioLog' = ioLog \o WalkIO(fs, p)
                 /\ UNCHANGED <<fs, messages, filesRestored, firstEncounteredError, errLog>>
            [] entry = "file" /\ ~IsBackupFile(fs, p) ->
                 /\ todo' = Tail(todo)
                 /\ ioLog' = ioLog \o WalkIO(fs, p)
                 /\ UNCHANGED <<fs, messages, filesRestored, firstEncounteredError, errLog>>
            [] entry = "file" /\ IsBackupFile(fs, p) /\ ~RenameOK(fs, p, originalPath(p)) ->
                 /\ firstEncounteredError' = Record(firstEncounteredError, Err("rename", p))
                 /\ errLog' = Append(errLog, Err("rename", p))
                 /\ ioLog' = ioLog \o WalkIO(fs, p) \o <<IO("rename", p)>>
                 /\ todo' = Tail(todo)
                 /\ UNCHANGED <<fs, messages, filesRestored>>
            [] entry = "file" /\ IsBackupFile(fs, p) /\ RenameOK(fs, p, originalPath(p)) ->
                 /\ fs' = Rename(fs, p, originalPath(p))
                 /\ messages' = Append(messages, [kind |-> "Restored",
                                                  path |-> originalPath(p), from |-> p])
                 /\ filesRestored' = filesRestored + 1
                 /\ ioLog' = ioLog \o WalkIO(fs, p) \o <<IO("rename", p)>>
                 /\ todo' = Tail(todo)
                 /\ UNCHANGED <<firstEncounteredError, errLog>>
    /\ UNCHANGED <<umask, opts, pc, modifiedFiles, filesProcessed, filesCleaned, walkErr,
                   ret, fs0, calls>>
    /\ UNCHANGED <<cli, wiz, conc>>

\* mutant of RestoreResult: only the error of filepath.Walk is returned
RestoreResultDropsError ==
    [op |-> "restore",
     paths |-> IF filesRestored = 0 /\ firstEncounteredError = Nil /\ walkErr = Nil
               THEN Append(messages, NoBakToRestore) ELSE messages,
     count |-> filesRestored,
     err |-> walkErr]

\* the return of PerformRestore once filepath.Walk has returned
RestoreResult ==
    IF walkErr # Nil
    THEN [op |-> "restore", paths |-> messages, count |-> filesRestored, err |-> walkErr]
    ELSE [op |-> "restore",
          paths |-> IF filesRestored = 0 /\ firstEncounteredError = Nil /\ walkErr = Nil
                    THEN Append(messages, NoBakToRestore) ELSE messages,
          count |-> filesRestored,
          err |-> firstEncounteredError]

RestoreReturn ==
    /\ pc = "restore"
    /\ todo = <<>>
    /\ ret' = RestoreResult
    /\ messages' = ret'.paths
    /\ calls' = Append(calls, [op |-> "restore", ret |-> ret', before |-> fs0,
                               after |-> fs, errs |-> errLog, io |-> ioLog])
    /\ pc' = "idle"
    /\ UNCHANGED <<fs, umask, opts, todo, modifiedFiles, filesProcessed,
                   filesRestored, filesCleaned, firstEncounteredError, walkErr,
                   errLog, ioLog, fs0>>
    /\ UNCHANGED <<cli, wiz, conc>>

(***************************************************************************)
(* PerformClean.                                                           *)
(***************************************************************************)
StartClean ==
    /\ pc = "idle"
    /\ Len(calls) < MaxCalls
    /\ pc' = "clean"
    /\ todo' = <<Root>>
    /\ fs0' = fs
    /\ errLog' = <<>>
    /\ ioLog' = <<>>
    /\ messages' = <<>>
    /\ filesCleaned' = 0
    /\ firstEncounteredError' = Nil
    /\ walkErr' = Nil
    /\ UNCHANGED <<fs, umask, opts, modifiedFiles, filesProcessed, filesRestored, ret, calls>>
    /\ UNCHANGED <<cli, wiz, conc>>

\* one call of the walk callback of PerformClean
CleanVisit ==
    /\ pc = "clean"
    /\ todo # <<>>
    /\ LET p == Head(todo)
           entry == WalkEntry(fs, p)
       IN CASE entry \in {"lstat", "readdir"} ->
                 /\ firstEncounteredError' = Record(firstEncounteredError, Err("access", p))
                 /\ errLog' = Append(errLog, Err("access", p))
                 /\ ioLog' = ioLog \o WalkIO(fs, p)
                 /\ todo' = Tail(todo)
                 /\ UNCHANGED <<fs, messages, filesCleaned>>
            [] entry = "dir" ->
                 /\ todo' = Children(fs, p) \o Tail(todo)
                 /\ ioLog' = ioLog \o WalkIO(fs, p)
                 /\ UNCHANGED <<fs, messages, filesCleaned, firstEncounteredError, errLog>>
            [] entry = "file" /\ ~IsBackupFile(fs, p) ->
                 /\ todo' = Tail(todo)
                 /\ ioLog' = ioLog \o WalkIO(fs, p)
                 /\ UNCHANGED <<fs, messages, filesCleaned, firstEncounteredError, errLog>>
            [] entry = "file" /\ IsBackupFile(fs, p) /\ ~RemoveOK(fs, p) ->
                 /\ firstEncounteredError' = Record(firstEncounteredError, Err("remove", p))
                 /\ errLog' = Append(errLog, Err("remove", p))
                 /\ ioLog' = ioLog \o WalkIO(fs, p) \o <<IO("remove", p)>>
                 /\ todo' = Tail(todo)
                 /\ UNCHANGED <<fs, messages, filesCleaned>>
            [] entry = "file" /\ IsBackupFile(fs, p) /\ RemoveOK(fs, p) ->
                 /\ fs' = Remove(fs, p)
                 /\ messages' = Append(messages, [kind |-> "Deleted backup", path |-> p])
                 /\ filesCleaned' = filesCleaned + 1
                 /\ ioLog' = ioLog \o WalkIO(fs, p) \o <<IO("remove", p)>>
                 /\ todo' = Tail(todo)
                 /\ UNCHANGED <<firstEncounteredError, errLog>>
    /\ UNCHANGED <<umask, opts, pc, modifiedFiles, filesProcessed, filesRestored, walkErr,
                   ret, fs0, calls>>
    /\ UNCHANGED <<cli, wiz, conc>>

\* mutant of CleanResult: the message is added whenever nothing was cleaned
CleanResultSaysNoneOnError ==
    [op |-> "clean",
     paths |-> IF filesCleaned = 0 THEN Append(messages, NoBakToClean) ELSE messages,
     count |-> filesCleaned,
     err |-> IF walkErr # Nil THEN walkErr ELSE firstEncounteredError]

\* the return of PerformClean once filepath.Walk has returned
CleanResult ==
    IF walkErr # Nil
    THEN [op |-> "clean", paths |-> messages, count |-> filesCleaned, err |-> walkErr]
    ELSE [op |-> "clean",
          paths |-> IF filesCleaned = 0 /\ firstEncounteredError = Nil /\ walkErr = Nil
                    THEN Append(messages, NoBakToClean) ELSE messages,
          count |-> filesCleaned,
          err |-> firstEncounteredError]

CleanReturn ==
    /\ pc = "clean"
    /\ todo = <<>>
    /\ ret' = CleanResult
    /\ messages' = ret'.paths
    /\ calls' = Append(calls, [op |-> "clean", ret |-> ret', before |-> fs0,
                               after |-> fs, errs |-> errLog, io |-> ioLog])
    /\ pc' = "idle"
    /\ UNCHANGED <<fs, umask, opts, todo, modifiedFiles, filesProcessed,
                   filesRestored, filesCleaned, firstEncounteredError, walkErr,
                   errLog, ioLog, fs0>>
    /\ UNCHANGED <<cli, wiz, conc>>

(***************************************************************************)
(* The engine driven by a caller that makes up to MaxCalls invocations,    *)
(* one at a time, on the same directory.                                   *)
(***************************************************************************)
Next ==
    \/ StartReplace
    \/ ReplaceVisit
    \/ ReplaceReturn
    \/ StartRestore
    \/ RestoreVisit
    \/ RestoreReturn
    \/ StartClean
    \/ CleanVisit
    \/ CleanReturn

Spec == Init /\ [][Next]_vars

(***************************************************************************)
(* One invocation of an engine, run to its return.  The engines are        *)
(* straight-line code around filepath.Walk: once called, the next callback *)
(* or the return is taken.                                                 *)
(***************************************************************************)
\* the requests of the engine that is run to its return: every pattern, an
\* empty and a non-empty OldText, with and without backups
TermRequests ==
    [Pattern : Patterns, OldText : {<<>>, <<"x">>}, NewText : {<<"y">>},
     ShouldBackup : BOOLEAN]

TermInit ==
    /\ Init
    /\ opts \in TermRequests
    /\ umask = {"gw"}

TermReplace == calls = <<>> /\ StartReplace

TermRestore == calls = <<>> /\ StartRestore

TermClean == calls = <<>> /\ StartClean

\* a step of the engine that has been called
EngineRuns ==
    \/ ReplaceVisit
    \/ ReplaceReturn
    \/ RestoreVisit
    \/ RestoreReturn
    \/ CleanVisit
    \/ CleanReturn

TermNext ==
    \/ TermReplace
    \/ TermRestore
    \/ TermClean
    \/ EngineRuns

TermSpec == TermInit /\ [][TermNext]_vars /\ WF_vars(EngineRuns)

(***************************************************************************)
(* PerformRestore and PerformClean on trees where an entry fails and other *)
(* .bak files come after it in the traversal.                              *)
(***************************************************************************)
\* a.bak and c.bak in a root that cannot be written; c.bak in a directory
\* that cannot be written, or cannot be searched, before a.bak; a root that
\* does not exist; a root whose names cannot be read; a tree without failure
SweepTrees ==
    {MkFs({<<Root, Dir({"r", "x"})>>, <<<<NameA \o BAK>>, File(<<"x">>, RW)>>,
           <<<<NameC \o BAK>>, File(<<"y">>, RW)>>}),
     MkFs({<<Root, Dir(RWX)>>, <<<<NameA>>, Dir({"r", "x"})>>,
           <<<<NameA, NameC \o BAK>>, File(<<"x">>, RW)>>,
           <<<<NameA \o BAK>>, File(<<"y">>, RW)>>}),
     MkFs({<<Root, Dir(RWX)>>, <<<<NameA>>, Dir({"r", "w"})>>,
           <<<<NameA, NameC \o BAK>>, File(<<"x">>, RW)>>,
           <<<<NameA \o BAK>>, File(<<"y">>, RW)>>}),
     MkFs({}),
     MkFs({<<Root, Dir({"w", "x"})>>, <<<<NameA \o BAK>>, File(<<"x">>, RW)>>}),
     MkFs({<<Root, Dir(RWX)>>, <<<<NameA>>, File(<<"x">>, RW)>>,
           <<<<NameA \o BAK>>, File(<<"y">>, RW)>>,
           <<<<NameA \o BAK \o BAK>>, File(<<"x">>, RW)>>})}

SweepInit ==
    /\ fs \in SweepTrees
    /\ umask = {"gw"}
    /\ opts = [Pattern |-> <<"*">>, OldText |-> <<"x">>, NewText |-> <<"y">>,
               ShouldBackup |-> FALSE]
    /\ pc = "idle"
    /\ todo = <<>>
    /\ modifiedFiles = <<>>
    /\ messages = <<>>
    /\ filesProcessed = 0
    /\ filesRestored = 0
    /\ filesCleaned = 0
    /\ firstEncounteredError = Nil
    /\ walkErr = Nil
    /\ ret = [op |-> "none", paths |-> <<>>, count |-> 0, err |-> Nil]
    /\ errLog = <<>>
    /\ ioLog = <<>>
    /\ fs0 = fs
    /\ calls = <<>>
    /\ cli = NoCli
    /\ wiz = NoWiz
    /\ conc = NoConc

SweepNext ==
    \/ StartRestore
    \/ RestoreVisit
    \/ RestoreReturn
    \/ StartClean
    \/ CleanVisit
    \/ CleanReturn

SweepSpec == SweepInit /\ [][SweepNext]_vars

(***************************************************************************)
(* PerformReplacement on trees without a regular file, and on one with a   *)
(* regular file below a directory.                                         *)
(***************************************************************************)
\* an empty root; a root with the empty directory a; with a and c in a;
\* with the directories a and c; with a directory whose names cannot be
\* read; and a root with the file c in directory a
BareTrees ==
    {MkFs({<<Root, Dir(RWX)>>}),
     MkFs({<<Root, Dir(RWX)>>, <<<<NameA>>, Dir(RWX)>>}),
     MkFs({<<Root, Dir(RWX)>>, <<<<NameA>>, Dir(RWX)>>, <<<<NameA, NameC>>, Dir(RWX)>>}),
     MkFs({<<Root, Dir(RWX)>>, <<<<NameA>>, Dir(RWX)>>, <<<<NameC>>, Dir(RWX)>>}),
     MkFs({<<Root, Dir(RWX)>>, <<<<NameA>>, Dir({"w", "x"})>>, <<<<NameC>>, Dir(RWX)>>}),
     MkFs({<<Root, Dir(RWX)>>, <<<<NameA>>, Dir(RWX)>>,
           <<<<NameA, NameC>>, File(<<"x">>, RW)>>})}

BareRequests ==
    [Pattern : {<<"[", "a">>, <<"*">>}, OldText : {<<"x">>}, NewText : {<<"y">>},
     ShouldBackup : BOOLEAN]

BareInit ==
    /\ fs \in BareTrees
    /\ umask = {"gw"}
    /\ opts \in BareRequests
    /\ pc = "idle"
    /\ todo = <<>>
    /\ modifiedFiles = <<>>
    /\ messages = <<>>
    /\ filesProcessed = 0
    /\ filesRestored = 0
    /\ filesCleaned = 0
    /\ firstEncounteredError = Nil
    /\ walkErr = Nil
    /\ ret = [op |-> "none", paths |-> <<>>, count |-> 0, err |-> Nil]
    /\ errLog = <<>>
    /\ ioLog = <<>>
    /\ fs0 = fs
    /\ calls = <<>>
    /\ cli = NoCli
    /\ wiz = NoWiz
    /\ conc = NoConc

BareNext ==
    \/ StartReplace
    \/ ReplaceVisit
    \/ ReplaceReturn

BareSpec == BareInit /\ [][BareNext]_vars

(***************************************************************************)
(* main: the command line.  -dir is the directory of the tree, -pattern,   *)
(* -old, -new and -backup are the fields of opts, the other flags and      *)
(* whether positional arguments are left after flag.Parse are cli.flags.   *)
(***************************************************************************)
Flags ==
    [wizard : BOOLEAN, restore : BOOLEAN, clean : BOOLEAN, version : BOOLEAN,
     posArgs : BOOLEAN]

Msg(kind) == [kind |-> kind]

\* mutant of runWizard: the wizard only runs when -wizard is given
runWizardOnlyOnFlag(fl, o) == fl.wizard

\* runWizard := *wizardFlag, or none of the operations and no argument
runWizard(fl, o) ==
    \/ fl.wizard
    \/ ~fl.wizard /\ ~fl.restore /\ ~fl.clean /\ o.OldText = <<>> /\ ~fl.posArgs

\* mutant of Dispatch: -restore is looked at before -clean
DispatchRestoreFirst(fl, o) ==
    IF fl.version THEN "version"
    ELSE IF runWizard(fl, o) THEN "wizard"
    ELSE IF fl.restore THEN "restore"
    ELSE IF fl.clean THEN "clean"
    ELSE IF o.OldText # <<>> THEN "replace"
    ELSE "usage"

\* the branch main takes
Dispatch(fl, o) ==
    IF fl.version THEN "version"
    ELSE IF runWizard(fl, o) THEN "wizard"
    ELSE IF fl.clean THEN "clean"
    ELSE IF fl.restore THEN "restore"
    ELSE IF o.OldText # <<>> THEN "replace"
    ELSE "usage"

\* actionVerb
Verb(mode) ==
    CASE mode = "clean" -> "cleaned" [] mode = "restore" -> "restored"
      [] mode = "replace" -> "modified"

\* itemsAffected: the count of PerformRestore and PerformClean, the number
\* of modified paths of PerformReplacement
itemsAffected(r) == IF r.op = "replace" THEN Len(r.paths) ELSE r.count

\* strings.Contains(msg, "No .bak files found") || strings.Contains(msg, "No files found")
IsNoFilesMsg(m) == m.kind \in {"NoBakFound", "No files found matching the pattern"}

\* operationMessages when the engine has returned r
operationMessages(r) ==
    IF r.op # "replace" THEN r.paths
    ELSE (IF Len(r.paths) > 0
          THEN <<Msg("Successfully modified files:")>>
               \o [i \in 1..Len(r.paths) |-> [kind |-> "  - ", path |-> r.paths[i]]]
          ELSE <<>>)
         \o (IF r.err = Nil /\ Len(r.paths) = 0
             THEN IF r.count > 0
                  THEN <<Msg("Old text not found in any matching files")>>
                  ELSE <<Msg("No files found matching the pattern")>>
             ELSE <<>>)

\* mutant of CliReport: a run that affected files exits with 0
CliReportPartialSuccess(r) ==
    LET n == itemsAffected(r)
        printed == SelectSeq(operationMessages(r),
                             LAMBDA m : ~(IsNoFilesMsg(m) /\ n = 0 /\ r.op # "replace"))
    IN IF r.err # Nil /\ n = 0
       THEN [stdout |-> printed,
             stderr |-> <<[kind |-> "Operation completed with errors", err |-> r.err]>>,
             exit |-> 1]
       ELSE [stdout |-> printed \o <<[kind |-> "Successfully", verb |-> Verb(r.op), n |-> n]>>,
             stderr |-> <<>>,
             exit |-> 0]

\* what main prints and the exit status once the engine has returned r
CliReport(r) ==
    LET n == itemsAffected(r)
        msgs == operationMessages(r)
        printed == SelectSeq(msgs, LAMBDA m : ~(IsNoFilesMsg(m) /\ n = 0 /\ r.op # "replace"))
    IN IF r.err # Nil
       THEN [stdout |-> printed,
             stderr |-> <<[kind |-> "Operation completed with errors", err |-> r.err]>>
                        \o (IF n > 0
                            THEN <<[kind |-> "However", n |-> n, verb |-> Verb(r.op)]>>
                            ELSE <<>>),
             exit |-> 1]
       ELSE [stdout |-> printed \o
                 (IF n > 0
                  THEN <<[kind |-> "Successfully", verb |-> Verb(r.op), n |-> n]>>
                  ELSE IF r.op = "replace" /\ r.count > 0
                  THEN <<Msg("Operation completed. No files required changes.")>>
                  ELSE IF r.op \in {"clean", "restore"} /\ n = 0
                  THEN IF Len(msgs) = 0
                       THEN <<[kind |-> "No .bak files found to", verb |-> Verb(r.op)]>>
                       ELSE <<Msg("Operation completed.")>>
                  ELSE IF r.op = "replace" /\ r.count = 0
                  THEN <<Msg("Operation completed.")>>
                  ELSE <<Msg("Operation completed successfully.")>>),
             stderr |-> <<>>,
             exit |-> 0]

(***************************************************************************)
(* The wizard (tui.go): the model, the Enter key, the command that runs    *)
(* the engine and the messages it sends back.                              *)
(***************************************************************************)
actionReplace == "Replace Text in Files"

actionRestore == "Restore Files from .bak"

actionClean == "Clean .bak Backup Files"

actionExit == "Exit"

NoText == Msg("")

\* the name the pattern check of the wizard matches against
TestFileName == <<"t", "e", "s", "t", "f", "i", "l", "e", "n", "a", "m", "e">>

\* the model of the wizard; cmds are the commands performOperationCmd has
\* made, in order, and handled tells how many of their messages Update has
\* received
newWizardModel ==
    [step |-> "stepChooseAction", selectedAction |-> "", targetDir |-> <<>>,
     filePattern |-> <<>>, oldText |-> <<>>, newText |-> <<>>, shouldBackup |-> FALSE,
     isLoading |-> FALSE, resultMessages |-> <<>>, errorMessage |-> NoText,
     quitting |-> FALSE, cmds |-> <<>>, handled |-> 0]

\* mutant of resetToMainMenu: the directory is kept for the next operation
resetKeepsDir(w) ==
    [w EXCEPT !.step = "stepChooseAction", !.selectedAction = "",
              !.filePattern = <<>>, !.oldText = <<>>, !.newText = <<>>,
              !.shouldBackup = FALSE, !.errorMessage = NoText, !.resultMessages = <<>>,
              !.isLoading = FALSE]

resetToMainMenu(w) ==
    [w EXCEPT !.step = "stepChooseAction", !.selectedAction = "", !.targetDir = <<>>,
              !.filePattern = <<>>, !.oldText = <<>>, !.newText = <<>>,
              !.shouldBackup = FALSE, !.errorMessage = NoText, !.resultMessages = <<>>,
              !.isLoading = FALSE]

\* the command made by performOperationCmd: it keeps the fields of the model
\* as they are when it is made
performOperationCmd(w) ==
    [action |-> w.selectedAction,
     opts |-> [Pattern |-> w.filePattern, OldText |-> w.oldText, NewText |-> w.newText,
               ShouldBackup |-> w.shouldBackup]]

\* the messages of PerformRestore / PerformClean that begin with "- "
ActionLines(msgs) == SelectSeq(msgs, LAMBDA m : m.kind \in {"Restored", "Deleted backup"})

\* the message a command sends once the engine it ran has returned r
operationMsg(action, r) ==
    IF action \notin {actionReplace, actionRestore, actionClean}
    THEN [type |-> "operationErrorMsg", err |-> Err("internal", <<>>)]
    ELSE IF r.err # Nil
    THEN [type |-> "operationErrorMsg", err |-> r.err]
    ELSE IF action = actionReplace
    THEN [type |-> "operationResultMsg",
          detailMessages |-> [i \in 1..Len(r.paths) |->
                                 [kind |-> "  - Modified: ", path |-> r.paths[i]]],
          itemsAffected |-> Len(r.paths),
          filesScanned |-> r.count]
    ELSE [type |-> "operationResultMsg",
          detailMessages |-> IF r.count > 0 THEN ActionLines(r.paths)
                             ELSE IF Len(r.paths) = 1 /\ r.paths[1].kind = "NoBakFound"
                             THEN <<>>
                             ELSE r.paths,
          itemsAffected |-> r.count,
          filesScanned |-> r.count]

\* the summary line Update makes for an operationResultMsg
Summary(action, msg) ==
    IF action = actionReplace
    THEN IF msg.itemsAffected > 0
         THEN <<[kind |-> "Successfully modified", n |-> msg.itemsAffected]>>
         ELSE IF msg.filesScanned > 0
         THEN <<Msg("Old text not found in any matching files")>>
         ELSE <<Msg("No files found matching the pattern")>>
    ELSE IF action = actionRestore
    THEN IF msg.itemsAffected > 0
         THEN <<[kind |-> "Successfully restored", n |-> msg.itemsAffected]>>
         ELSE <<Msg("No .bak files found to restore.")>>
    ELSE IF action = actionClean
    THEN IF msg.itemsAffected > 0
         THEN <<[kind |-> "Successfully cleaned", n |-> msg.itemsAffected]>>
         ELSE <<Msg("No .bak files found to clean.")>>
    ELSE <<>>

\* mutant of UpdateMsg: an error message is shown as a result
UpdateMsgShowsResultOnError(w, msg) ==
    [w EXCEPT !.isLoading = FALSE,
              !.resultMessages = <<Msg("Operation completed. No specific actions to report.")>>,
              !.step = "stepShowResult",
              !.handled = @ + 1]

\* Update on operationResultMsg and operationErrorMsg
UpdateMsg(w, msg) ==
    IF msg.type = "operationErrorMsg"
    THEN [w EXCEPT !.isLoading = FALSE,
                   !.errorMessage = [kind |-> "Operation failed", err |-> msg.err],
                   !.step = "stepError",
                   !.handled = @ + 1]
    ELSE LET summary == Summary(w.selectedAction, msg)
             final == summary
                      \o (IF Len(msg.detailMessages) > 0 /\ msg.itemsAffected > 0
                          THEN (IF summary # <<>> THEN <<Msg("")>> ELSE <<>>)
                               \o msg.detailMessages
                          ELSE <<>>)
         IN [w EXCEPT !.isLoading = FALSE,
                      !.resultMessages =
                          IF final = <<>>
                          THEN <<Msg("Operation completed. No specific actions to report.")>>
                          ELSE final,
                      !.step = "stepShowResult",
                      !.handled = @ + 1]

\* strings.TrimSpace, on the blanks the model types
RECURSIVE TrimLeft(_)
TrimLeft(t) == IF t # <<>> /\ Head(t) = " " THEN TrimLeft(Tail(t)) ELSE t

RECURSIVE TrimRight(_)
TrimRight(t) ==
    IF t # <<>> /\ t[Len(t)] = " " THEN TrimRight(SubSeq(t, 1, Len(t) - 1)) ELSE t

TrimSpace(t) == TrimRight(TrimLeft(t))

\* the path a directory name names: "." is the directory the program runs
\* in, any other name an entry of it
DirPath(t) == IF t = <<".">> THEN Root ELSE <<t>>

\* mutant of StepAfterDir: the pattern is asked for whatever the action
StepAfterDirAlwaysPattern(w) == "stepEnterPattern"

\* the step Update goes to from stepEnterDir once the directory is accepted
StepAfterDir(w) ==
    CASE w.selectedAction = actionReplace -> "stepEnterPattern"
      [] w.selectedAction \in {actionRestore, actionClean} -> "stepConfirmOperation"
      [] OTHER -> w.step

\* mutant of OldTextRejected: an empty text to replace is accepted
OldTextNeverRejected(w, t) == FALSE

\* if m.oldText == "" && m.selectedAction == actionReplace
OldTextRejected(w, t) == t = <<>> /\ w.selectedAction = actionReplace

\* Update on the Enter key; the action chosen in the list is a, the text
\* typed for the directory is d and the other values typed are those of
\* the request o
UpdateEnter(w, f, o, a, d) ==
    CASE w.step = "stepChooseAction" ->
            IF a = actionExit
            THEN [w EXCEPT !.selectedAction = a, !.quitting = TRUE]
            ELSE [w EXCEPT !.selectedAction = a, !.step = "stepEnterDir"]
      [] w.step = "stepEnterDir" ->
            LET dir == IF TrimSpace(d) = <<>> THEN <<".">> ELSE TrimSpace(d)
                w1 == [w EXCEPT !.targetDir = dir, !.errorMessage = NoText]
            IN IF Reachable(f, DirPath(dir)) /\ ~Exists(f, DirPath(dir))
               THEN [w1 EXCEPT !.errorMessage = Msg("Directory does not exist.")]
               ELSE IF ~LstatOK(f, DirPath(dir))
               THEN [w1 EXCEPT !.errorMessage = Msg("Error accessing directory")]
               ELSE IF ~IsDir(f, DirPath(dir))
               THEN [w1 EXCEPT !.errorMessage = Msg("Path is not a directory.")]
               ELSE [w1 EXCEPT !.step = StepAfterDir(w)]
      [] w.step = "stepEnterPattern" ->
            LET pat == IF TrimSpace(o.Pattern) = <<>> THEN <<"*">> ELSE TrimSpace(o.Pattern)
                w1 == [w EXCEPT !.filePattern = pat, !.errorMessage = NoText]
            IN IF Match(pat, TestFileName).err # NoErr /\ pat # <<"*">>
               THEN [w1 EXCEPT !.errorMessage = Msg("Invalid file pattern syntax")]
               ELSE [w1 EXCEPT !.step = "stepEnterOldText"]
      [] w.step = "stepEnterOldText" ->
            LET w1 == [w EXCEPT !.oldText = o.OldText, !.errorMessage = NoText]
            IN IF OldTextRejected(w, o.OldText)
               THEN [w1 EXCEPT !.errorMessage = Msg("Text to replace cannot be empty")]
               ELSE [w1 EXCEPT !.step = "stepEnterNewText"]
      [] w.step = "stepEnterNewText" ->
            [w EXCEPT !.newText = o.NewText, !.step = "stepConfirmBackup"]
      [] w.step = "stepConfirmBackup" ->
            [w EXCEPT !.shouldBackup = o.ShouldBackup, !.step = "stepConfirmOperation"]
      [] w.step = "stepConfirmOperation" ->
            [w EXCEPT !.isLoading = TRUE, !.resultMessages = <<>>, !.errorMessage = NoText,
                      !.cmds = Append(@, performOperationCmd(w))]
      [] w.step \in {"stepShowResult", "stepError"} -> resetToMainMenu(w)

\* mutant of UpdateEsc: Esc always returns to the main menu
UpdateEscToMenu(w) ==
    IF w.step = "stepChooseAction" \/ w.isLoading THEN w
    ELSE [w EXCEPT !.step = "stepChooseAction", !.selectedAction = "", !.targetDir = <<>>,
                   !.filePattern = <<>>, !.oldText = <<>>, !.newText = <<>>,
                   !.shouldBackup = FALSE, !.errorMessage = NoText,
                   !.resultMessages = <<>>, !.isLoading = FALSE]

\* mutant of UpdateEsc: Esc goes back also while an operation runs
UpdateEscCancels(w) ==
    IF w.step = "stepChooseAction" THEN w
    ELSE IF w.step = "stepConfirmOperation"
    THEN [w EXCEPT !.step = "stepEnterDir", !.errorMessage = NoText, !.isLoading = FALSE]
    ELSE [w EXCEPT !.step = "stepChooseAction", !.selectedAction = "", !.targetDir = <<>>,
                   !.filePattern = <<>>, !.oldText = <<>>, !.newText = <<>>,
                   !.shouldBackup = FALSE, !.errorMessage = NoText,
                   !.resultMessages = <<>>, !.isLoading = FALSE]

\* Update on the Esc key
UpdateEsc(w) ==
    IF w.step = "stepChooseAction" \/ w.isLoading THEN w
    ELSE LET w1 == [w EXCEPT !.errorMessage = NoText]
         IN IF w.step \in {"stepShowResult", "stepError"} THEN resetToMainMenu(w1)
            ELSE IF w.selectedAction = actionReplace
            THEN CASE w.step = "stepEnterDir" -> resetToMainMenu(w1)
                   [] w.step = "stepEnterPattern" -> [w1 EXCEPT !.step = "stepEnterDir"]
                   [] w.step = "stepEnterOldText" -> [w1 EXCEPT !.step = "stepEnterPattern"]
                   [] w.step = "stepEnterNewText" -> [w1 EXCEPT !.step = "stepEnterOldText"]
                   [] w.step = "stepConfirmBackup" -> [w1 EXCEPT !.step = "stepEnterNewText"]
                   [] w.step = "stepConfirmOperation" ->
                          [w1 EXCEPT !.step = "stepConfirmBackup"]
                   [] OTHER -> w1
            ELSE IF w.selectedAction \in {actionRestore, actionClean}
            THEN CASE w.step = "stepEnterDir" -> resetToMainMenu(w1)
                   [] w.step = "stepConfirmOperation" -> [w1 EXCEPT !.step = "stepEnterDir"]
                   [] OTHER -> w1
            ELSE resetToMainMenu(w1)

\* Update on Ctrl+C
UpdateCtrlC(w) == [w EXCEPT !.quitting = TRUE]

\* View: what the wizard shows
View(w) ==
    IF w.quitting THEN <<Msg("Exiting PhotonSR. Goodbye!")>>
    ELSE IF w.isLoading THEN <<Msg("Processing... please wait.")>>
    ELSE (IF w.errorMessage # NoText
          THEN <<[kind |-> "Error: ", text |-> w.errorMessage]>> ELSE <<>>)
         \o (IF w.step = "stepConfirmOperation"
             THEN <<[kind |-> "Confirm Operation Summary:", action |-> w.selectedAction]>>
             ELSE IF w.step = "stepShowResult"
             THEN <<Msg("Operation Complete:")>>
                  \o (IF Len(w.resultMessages) > 0 THEN w.resultMessages
                      ELSE <<Msg("The operation finished, but no specific result messages were generated.")>>)
             ELSE <<[kind |-> "screen", step |-> w.step]>>)

(***************************************************************************)
(* One process of the program: main parses the flags and either prints     *)
(* and exits, runs one engine and reports, or runs the wizard.             *)
(***************************************************************************)
engineVars ==
    <<fs, umask, opts, pc, todo, modifiedFiles, messages, filesProcessed, filesRestored,
      filesCleaned, firstEncounteredError, walkErr, ret, errLog, ioLog, fs0, calls>>

\* flag.Parse up to the call of an engine or of the wizard
MainStart ==
    /\ cli.phase = "start"
    /\ LET d == Dispatch(cli.flags, opts)
       IN CASE d = "version" ->
                 /\ cli' = [cli EXCEPT !.phase = "exited", !.mode = d, !.exit = 0,
                                       !.stdout = <<Msg("PhotonSR version")>>]
                 /\ UNCHANGED wiz
            [] d = "wizard" ->
                 /\ cli' = [cli EXCEPT !.phase = "wizard", !.mode = d]
                 /\ wiz' = newWizardModel
            [] d = "usage" ->
                 /\ cli' = [cli EXCEPT !.phase = "exited", !.mode = d, !.exit = 1,
                                       !.stderr =
                                           (IF cli.flags.posArgs
                                            THEN <<Msg("Error: Unknown arguments provided.")>>
                                            ELSE <<>>)
                                           \o <<Msg("No operation specified.")>>]
                 /\ UNCHANGED wiz
            [] d \in {"clean", "restore", "replace"} ->
                 /\ cli' = [cli EXCEPT !.phase = "call", !.mode = d,
                                       !.stdout = <<[kind |-> "doing", mode |-> d]>>]
                 /\ UNCHANGED wiz
    /\ UNCHANGED engineVars
    /\ UNCHANGED conc

\* main calls the engine the flags select
MainClean == cli.phase = "call" /\ cli.mode = "clean" /\ calls = <<>> /\ StartClean

MainRestore == cli.phase = "call" /\ cli.mode = "restore" /\ calls = <<>> /\ StartRestore

MainReplace == cli.phase = "call" /\ cli.mode = "replace" /\ calls = <<>> /\ StartReplace

\* main prints the outcome of the engine and exits
MainReport ==
    /\ cli.phase = "call"
    /\ pc = "idle"
    /\ Len(calls) = 1
    /\ LET rep == CliReport(calls[1].ret)
       IN cli' = [cli EXCEPT !.phase = "exited", !.stdout = @ \o rep.stdout,
                             !.stderr = rep.stderr, !.exit = rep.exit]
    /\ UNCHANGED engineVars
    /\ UNCHANGED <<wiz, conc>>

\* program.Run fails before the wizard shows
MainWizardFails ==
    /\ cli.phase = "wizard"
    /\ wiz = newWizardModel
    /\ cli' = [cli EXCEPT !.phase = "exited", !.exit = 1,
                          !.stderr = <<Msg("Error running interactive wizard")>>]
    /\ UNCHANGED engineVars
    /\ UNCHANGED <<wiz, conc>>

\* program.Run returns once the wizard quits
MainWizardExit ==
    /\ cli.phase = "wizard"
    /\ wiz.quitting
    /\ cli' = [cli EXCEPT !.phase = "exited", !.exit = 0]
    /\ UNCHANGED engineVars
    /\ UNCHANGED <<wiz, conc>>

\* the user presses Enter
WizardEnter ==
    /\ cli.phase = "wizard"
    /\ ~wiz.quitting
    /\ wiz.step = "stepConfirmOperation" => Len(wiz.cmds) < MaxCalls
    /\ \E a \in {actionReplace, actionRestore, actionClean, actionExit} :
           /\ (wiz.step # "stepChooseAction" => a = actionExit)
           /\ wiz' = UpdateEnter(wiz, fs, opts, a, <<>>)
    /\ UNCHANGED engineVars
    /\ UNCHANGED <<cli, conc>>

\* the next command of the wizard starts to run
WizardRuns(action) ==
    /\ cli.phase = "wizard"
    /\ ~wiz.quitting
    /\ Len(calls) < Len(wiz.cmds)
    /\ wiz.cmds[Len(calls) + 1].action = action

WizardReplace ==
    /\ WizardRuns(actionReplace)
    /\ wiz.cmds[Len(calls) + 1].opts = opts
    /\ StartReplace

WizardRestore == WizardRuns(actionRestore) /\ StartRestore

WizardClean == WizardRuns(actionClean) /\ StartClean

\* Update receives the message of a command whose engine has returned
WizardMsg ==
    /\ cli.phase = "wizard"
    /\ ~wiz.quitting
    /\ wiz.handled < Len(calls)
    /\ wiz' = UpdateMsg(wiz, operationMsg(wiz.cmds[wiz.handled + 1].action,
                                          calls[wiz.handled + 1].ret))
    /\ UNCHANGED engineVars
    /\ UNCHANGED <<cli, conc>>

FrontRequests ==
    [Pattern : {<<"*">>, <<"[", "a">>}, OldText : {<<>>, <<"x">>}, NewText : {<<"y">>},
     ShouldBackup : BOOLEAN]

\* trees on which a run succeeds, succeeds in part, or fails
FrontTrees ==
    {MkFs({<<Root, Dir(RWX)>>, <<<<NameA>>, File(<<"x">>, RW)>>,
           <<<<NameA \o BAK>>, File(<<"x">>, RW)>>}),
     MkFs({<<Root, Dir(RWX)>>, <<<<NameA>>, File(<<"x">>, {"r"})>>,
           <<<<NameA \o BAK>>, File(<<"x">>, RW)>>}),
     MkFs({<<Root, Dir({"r", "x"})>>, <<<<NameA>>, File(<<"x">>, RW)>>,
           <<<<NameA \o BAK>>, File(<<"x">>, RW)>>}),
     MkFs({<<Root, Dir(RWX)>>, <<<<NameA \o BAK>>, File(<<"x">>, RW)>>}
          \cup SubTree(<<BAK>>, {"r", "w"})),
     MkFs({<<Root, Dir(RWX)>>, <<<<NameA>>, File(<<"y">>, RW)>>}),
     MkFs({})}

FrontInit ==
    /\ fs \in FrontTrees
    /\ umask = {"gw"}
    /\ opts \in FrontRequests
    /\ pc = "idle"
    /\ todo = <<>>
    /\ modifiedFiles = <<>>
    /\ messages = <<>>
    /\ filesProcessed = 0
    /\ filesRestored = 0
    /\ filesCleaned = 0
    /\ firstEncounteredError = Nil
    /\ walkErr = Nil
    /\ ret = [op |-> "none", paths |-> <<>>, count |-> 0, err |-> Nil]
    /\ errLog = <<>>
    /\ ioLog = <<>>
    /\ fs0 = fs
    /\ calls = <<>>
    /\ cli \in [phase : {"start"}, mode : {""}, flags : Flags, stdout : {<<>>},
                stderr : {<<>>}, exit : {-1}]
    /\ wiz = NoWiz
    /\ conc = NoConc

FrontNext ==
    \/ MainStart
    \/ MainClean
    \/ MainRestore
    \/ MainReplace
    \/ MainReport
    \/ MainWizardFails
    \/ MainWizardExit
    \/ WizardEnter
    \/ WizardReplace
    \/ WizardRestore
    \/ WizardClean
    \/ WizardMsg
    \/ ReplaceVisit
    \/ ReplaceReturn
    \/ RestoreVisit
    \/ RestoreReturn
    \/ CleanVisit
    \/ CleanReturn

FrontSpec == FrontInit /\ [][FrontNext]_vars

(***************************************************************************)
(* The wizard on its own, with every key Update handles: Enter on typed    *)
(* text that may be rejected, Esc and Ctrl+C.                              *)
(***************************************************************************)
\* what the user types for the directory: nothing or a blank (the default
\* "."), the name of a file, a name that does not exist
TypedDirs == {<<>>, <<" ">>, NameA, <<"n">>}

\* what the user types for the request o in mind: its values, a malformed
\* pattern, nothing for the pattern when "*" is meant, nothing for the text
\* to replace
TypedRequests(o) ==
    [Pattern : {o.Pattern, <<"[", "a">>} \cup (IF o.Pattern = <<"*">> THEN {<<>>} ELSE {}),
     OldText : {o.OldText, <<>>},
     NewText : {o.NewText},
     ShouldBackup : {o.ShouldBackup}]

\* the user presses Enter on the item chosen or the text typed; what is
\* typed counts at the step that reads it
WizardTyped ==
    /\ cli.phase = "wizard"
    /\ ~wiz.quitting
    /\ wiz.step = "stepConfirmOperation" => Len(wiz.cmds) < MaxCalls
    /\ \E a \in {actionReplace, actionRestore, actionClean, actionExit},
          d \in TypedDirs, o \in TypedRequests(opts) :
           /\ (wiz.step # "stepChooseAction" => a = actionExit)
           /\ (wiz.step # "stepEnterDir" => d = <<>>)
           /\ (wiz.step # "stepEnterPattern" => o.Pattern = opts.Pattern)
           /\ (wiz.step # "stepEnterOldText" => o.OldText = opts.OldText)
           /\ wiz' = UpdateEnter(wiz, fs, o, a, d)
    /\ UNCHANGED engineVars
    /\ UNCHANGED <<cli, conc>>

\* the user presses Esc
WizardEsc ==
    /\ cli.phase = "wizard"
    /\ ~wiz.quitting
    /\ wiz' = UpdateEsc(wiz)
    /\ UNCHANGED engineVars
    /\ UNCHANGED <<cli, conc>>

\* the user presses Ctrl+C
WizardCtrlC ==
    /\ cli.phase = "wizard"
    /\ ~wiz.quitting
    /\ wiz' = UpdateCtrlC(wiz)
    /\ UNCHANGED engineVars
    /\ UNCHANGED <<cli, conc>>

WizRequests ==
    [Pattern : {<<"*">>}, OldText : {<<"x">>}, NewText : {<<"y">>}, ShouldBackup : BOOLEAN]

\* trees on which a run succeeds, and on which it returns an error
WizTrees ==
    {MkFs({<<Root, Dir(RWX)>>, <<<<NameA>>, File(<<"x">>, RW)>>,
           <<<<NameA \o BAK>>, File(<<"x">>, RW)>>}),
     MkFs({<<Root, Dir({"r", "x"})>>, <<<<NameA>>, File(<<"x">>, {"r"})>>,
           <<<<NameA \o BAK>>, File(<<"x">>, RW)>>})}

\* main has started the wizard
WizInit ==
    /\ fs \in WizTrees
    /\ umask = {"gw"}
    /\ opts \in WizRequests
    /\ pc = "idle"
    /\ todo = <<>>
    /\ modifiedFiles = <<>>
    /\ messages = <<>>
    /\ filesProcessed = 0
    /\ filesRestored = 0
    /\ filesCleaned = 0
    /\ firstEncounteredError = Nil
    /\ walkErr = Nil
    /\ ret = [op |-> "none", paths |-> <<>>, count |-> 0, err |-> Nil]
    /\ errLog = <<>>
    /\ ioLog = <<>>
    /\ fs0 = fs
    /\ calls = <<>>
    /\ cli = [phase |-> "wizard", mode |-> "wizard",
              flags |-> [wizard |-> TRUE, restore |-> FALSE, clean |-> FALSE,
                         version |-> FALSE, posArgs |-> FALSE],
              stdout |-> <<>>, stderr |-> <<>>, exit |-> -1]
    /\ wiz = newWizardModel
    /\ conc = NoConc

WizNext ==
    \/ WizardTyped
    \/ WizardEsc
    \/ WizardCtrlC
    \/ MainWizardExit
    \/ WizardReplace
    \/ WizardRestore
    \/ WizardClean
    \/ WizardMsg
    \/ ReplaceVisit
    \/ ReplaceReturn
    \/ RestoreVisit
    \/ RestoreReturn
    \/ CleanVisit
    \/ CleanReturn

WizSpec == WizInit /\ [][WizNext]_vars

\* what goes on without the user: the next command starts, the engine it
\* called runs, the message of a returned engine reaches Update
Delivers ==
    \/ WizardReplace
    \/ WizardRestore
    \/ WizardClean
    \/ EngineRuns
    \/ WizardMsg

\* the wizard on a request with backups
WizLiveInit == WizInit /\ opts.ShouldBackup

\* the keys of the wizard, Enter on the request as it stands, and what goes
\* on without the user
WizLiveNext ==
    \/ WizardEnter
    \/ WizardEsc
    \/ WizardCtrlC
    \/ MainWizardExit
    \/ WizardReplace
    \/ WizardRestore
    \/ WizardClean
    \/ WizardMsg
    \/ EngineRuns

\* the wizard with its commands run to their end and their messages
\* delivered
WizLiveSpec == WizLiveInit /\ [][WizLiveNext]_vars /\ WF_vars(Delivers)

(***************************************************************************)
(* Two invocations of the engines at the same time, each on its own        *)
(* directory of one file system.  The variables an invocation declares     *)
(* (modifiedFiles or messages, the counter, firstEncounteredError) and the *)
(* state of its filepath.Walk are one record per invocation; a step is one *)
(* call of its walk callback.                                              *)
(***************************************************************************)
\* the variables of an invocation of engine op on directory dir when
\* filepath.Walk starts
Invocation(op, dir, o) ==
    [op |-> op, dir |-> dir, opts |-> o, pc |-> "walk", todo |-> <<dir>>, out |-> <<>>,
     count |-> 0, first |-> Nil, walkErr |-> Nil,
     ret |-> [op |-> "none", paths |-> <<>>, count |-> 0, err |-> Nil]]

\* the walk callback of PerformReplacement on the variables l, called for
\* path p, which walk found to be entry, matching the pattern as m says and
\* rewritten as rf says
ReplaceCallback(l, f, p, entry, m, rf) ==
       CASE entry \in {"lstat", "readdir"} ->
              [l |-> [l EXCEPT !.first = Record(@, Err("access", p)), !.todo = Tail(@)],
               fs |-> f]
         [] entry = "dir" ->
              [l |-> [l EXCEPT !.todo = Children(f, p) \o Tail(@)], fs |-> f]
         [] entry = "file" /\ m.err # NoErr ->
              [l |-> [l EXCEPT !.walkErr = Err("pattern", l.opts.Pattern), !.todo = <<>>],
               fs |-> f]
         [] entry = "file" /\ m.err = NoErr /\ ~m.matched ->
              [l |-> [l EXCEPT !.todo = Tail(@)], fs |-> f]
         [] entry = "file" /\ m.err = NoErr /\ m.matched ->
              [l |-> [l EXCEPT !.count = @ + rf.processed,
                               !.first = RecordAll(@, rf.errs),
                               !.out = IF rf.modified THEN Append(@, p) ELSE @,
                               !.todo = Tail(@)],
               fs |-> rf.fs]

\* one call of the walk callback of PerformReplacement on the variables l
ReplaceStep(l, f, um) ==
    ReplaceCallback(l, f, Head(l.todo), WalkEntry(f, Head(l.todo)),
                    matchesPattern(Base(Head(l.todo)), l.opts.Pattern),
                    ReplaceFile(f, Head(l.todo), l.opts, um))

\* the walk callback of PerformRestore, called for path p, which walk found
\* to be entry
RestoreCallback(l, f, p, entry) ==
       CASE entry \in {"lstat", "readdir"} ->
              [l |-> [l EXCEPT !.first = Record(@, Err("access", p)), !.todo = Tail(@)],
               fs |-> f]
         [] entry = "dir" ->
              [l |-> [l EXCEPT !.todo = Children(f, p) \o Tail(@)], fs |-> f]
         [] entry = "file" /\ ~IsBackupFile(f, p) ->
              [l |-> [l EXCEPT !.todo = Tail(@)], fs |-> f]
         [] entry = "file" /\ IsBackupFile(f, p) /\ ~RenameOK(f, p, originalPath(p)) ->
              [l |-> [l EXCEPT !.first = Record(@, Err("rename", p)), !.todo = Tail(@)],
               fs |-> f]
         [] entry = "file" /\ IsBackupFile(f, p) /\ RenameOK(f, p, originalPath(p)) ->
              [l |-> [l EXCEPT !.out = Append(@, [kind |-> "Restored",
                                                  path |-> originalPath(p), from |-> p]),
                               !.count = @ + 1,
                               !.todo = Tail(@)],
               fs |-> Rename(f, p, originalPath(p))]

\* one call of the walk callback of PerformRestore
RestoreStep(l, f) == RestoreCallback(l, f, Head(l.todo), WalkEntry(f, Head(l.todo)))

\* the walk callback of PerformClean, called for path p, which walk found
\* to be entry
CleanCallback(l, f, p, entry) ==
       CASE entry \in {"lstat", "readdir"} ->
              [l |-> [l EXCEPT !.first = Record(@, Err("access", p)), !.todo = Tail(@)],
               fs |-> f]
         [] entry = "dir" ->
              [l |-> [l EXCEPT !.todo = Children(f, p) \o Tail(@)], fs |-> f]
         [] entry = "file" /\ ~IsBackupFile(f, p) ->
              [l |-> [l EXCEPT !.todo = Tail(@)], fs |-> f]
         [] entry = "file" /\ IsBackupFile(f, p) /\ ~RemoveOK(f, p) ->
              [l |-> [l EXCEPT !.first = Record(@, Err("remove", p)), !.todo = Tail(@)],
               fs |-> f]
         [] entry = "file" /\ IsBackupFile(f, p) /\ RemoveOK(f, p) ->
              [l |-> [l EXCEPT !.out = Append(@, [kind |-> "Deleted backup", path |-> p]),
                               !.count = @ + 1,
                               !.todo = Tail(@)],
               fs |-> Remove(f, p)]

\* one call of the walk callback of PerformClean
CleanStep(l, f) == CleanCallback(l, f, Head(l.todo), WalkEntry(f, Head(l.todo)))

EngineStep(l, f, um) ==
    CASE l.op = "replace" -> ReplaceStep(l, f, um)
      [] l.op = "restore" -> RestoreStep(l, f)
      [] l.op = "clean" -> CleanStep(l, f)

\* what the engine returns once filepath.Walk has returned
EngineResult(l) ==
    [op |-> l.op,
     paths |-> IF l.op # "replace" /\ l.walkErr = Nil /\ l.count = 0 /\ l.first = Nil
               THEN Append(l.out, NoBakMessage(l.op)) ELSE l.out,
     count |-> l.count,
     err |-> IF l.walkErr # Nil THEN l.walkErr ELSE l.first]

\* mutant of Store: the counter and the recorded error are shared by the
\* invocations
StoreShared(c, i, l) ==
    [j \in DOMAIN c |-> IF j = i THEN l
                        ELSE [c[j] EXCEPT !.count = l.count, !.first = l.first]]

\* an invocation keeps its variables to itself
Store(c, i, l) == [c EXCEPT ![i] = l]

\* the callback of invocation i has run with outcome r
Stepped(i, r) ==
    /\ fs' = r.fs
    /\ conc' = Store(conc, i, r.l)

\* invocation i makes one call of its walk callback
ConcVisit(i) ==
    /\ conc[i].pc = "walk"
    /\ conc[i].todo # <<>>
    /\ Stepped(i, EngineStep(conc[i], fs, umask))
    /\ UNCHANGED <<umask, opts, pc, todo, modifiedFiles, messages, filesProcessed,
                   filesRestored, filesCleaned, firstEncounteredError, walkErr, ret,
                   errLog, ioLog, fs0, calls, cli, wiz>>

\* invocation i returns
ConcReturn(i) ==
    /\ conc[i].pc = "walk"
    /\ conc[i].todo = <<>>
    /\ conc' = Store(conc, i, [conc[i] EXCEPT !.pc = "done", !.ret = EngineResult(conc[i])])
    /\ UNCHANGED <<fs, umask, opts, pc, todo, modifiedFiles, messages, filesProcessed,
                   filesRestored, filesCleaned, firstEncounteredError, walkErr, ret,
                   errLog, ioLog, fs0, calls, cli, wiz>>

ConcDirs == << <<NameC>>, <<<<"d">>>> >>

\* what a directory of the two may hold: a, a and an older a.bak, the same
\* in a directory that cannot be written, a read-only a and a.bak
ConcContents(d) ==
    {{<<d, Dir(RWX)>>, <<Join(d, NameA), File(<<"x">>, RW)>>},
     {<<d, Dir(RWX)>>, <<Join(d, NameA), File(<<"x">>, RW)>>,
      <<Join(d, NameA \o BAK), File(<<"y">>, RW)>>},
     {<<d, Dir({"r", "x"})>>, <<Join(d, NameA), File(<<"x">>, RW)>>,
      <<Join(d, NameA \o BAK), File(<<"y">>, RW)>>},
     {<<d, Dir(RWX)>>, <<Join(d, NameA), File(<<"x">>, {"r"})>>,
      <<Join(d, NameA \o BAK), File(<<"x">>, RW)>>}}

ConcTrees ==
    {MkFs({<<Root, Dir(RWX)>>} \cup c1 \cup c2) :
        c1 \in ConcContents(ConcDirs[1]), c2 \in ConcContents(ConcDirs[2])}

ConcRequests ==
    [Pattern : {<<"*">>, <<"[", "a">>}, OldText : {<<"x">>}, NewText : {<<"y">>},
     ShouldBackup : BOOLEAN]

\* PerformRestore and PerformClean take the directory only
NoRequest == [Pattern |-> <<>>, OldText |-> <<>>, NewText |-> <<>>, ShouldBackup |-> FALSE]

ConcCalls ==
    {[op |-> "replace", opts |-> o] : o \in ConcRequests}
    \cup {[op |-> "restore", opts |-> NoRequest], [op |-> "clean", opts |-> NoRequest]}

ConcInit ==
    /\ fs \in ConcTrees
    /\ umask = {"gw"}
    /\ \E k1, k2 \in ConcCalls :
           conc = <<Invocation(k1.op, ConcDirs[1], k1.opts),
                    Invocation(k2.op, ConcDirs[2], k2.opts)>>
    /\ opts = NoRequest
    /\ pc = "idle"
    /\ todo = <<>>
    /\ modifiedFiles = <<>>
    /\ messages = <<>>
    /\ filesProcessed = 0
    /\ filesRestored = 0
    /\ filesCleaned = 0
    /\ firstEncounteredError = Nil
    /\ walkErr = Nil
    /\ ret = [op |-> "none", paths |-> <<>>, count |-> 0, err |-> Nil]
    /\ errLog = <<>>
    /\ ioLog = <<>>
    /\ fs0 = fs
    /\ calls = <<>>
    /\ cli = NoCli
    /\ wiz = NoWiz

ConcVisits == \E i \in DOMAIN conc : ConcVisit(i)

ConcReturns == \E i \in DOMAIN conc : ConcReturn(i)

ConcNext ==
    \/ ConcVisits
    \/ ConcReturns

ConcSpec == ConcInit /\ [][ConcNext]_vars

(***************************************************************************)
(* Vocabulary of the properties.                                           *)
(***************************************************************************)
InSeq(x, s) == \E i \in 1..Len(s) : s[i] = x

\* the traversal of tree f reaches p: p can be stat'ed and every directory
\* above it can be listed
Visible(f, p) == LstatOK(f, p) /\ \A i \in 0..(Len(p) - 1) : ReadDirOK(f, Take(p, i))

\* the pattern of the request is malformed (Match reports it for any name)
Malformed(pattern) == pattern \notin {<<>>, <<"*">>} /\ Match(pattern, <<>>).err # NoErr

\* the base name of p satisfies the request's pattern
Selected(p) == matchesPattern(Base(p), opts.Pattern).matched

\* the regular files of tree f
RegularFiles(f) == {p \in DOMAIN f : IsRegular(f, p)}

\* the i-th and (i+1)-th completed invocations are op1 and then op2
Consecutive(i, op1, op2) ==
    i + 1 <= Len(calls) /\ calls[i].op = op1 /\ calls[i + 1].op = op2

\* C1: replace with backup, then restore, leaves every selected file with
\* the content and permission bits it had before the replace (stated for
\* runs in which neither invocation reported an error)
C1_RoundTrip ==
    \A i \in 1..Len(calls) :
        ( /\ Consecutive(i, "replace", "restore")
          /\ opts.ShouldBackup
          /\ calls[i].ret.err = Nil
          /\ calls[i + 1].ret.err = Nil )
        => \A F \in RegularFiles(calls[i].before) :
               Selected(F) =>
                   /\ F \in DOMAIN calls[i + 1].after
                   /\ calls[i + 1].after[F] = calls[i].before[F]

\* C2: at the end of a backup-enabled replace that met no failure, P.bak
\* exists for every selected file P and holds the content P had before
C2_BackupIdentical ==
    \A i \in 1..Len(calls) :
        (calls[i].op = "replace" /\ opts.ShouldBackup /\ opts.OldText # <<>>
            /\ calls[i].ret.err = Nil)
        => \A P \in RegularFiles(calls[i].before) :
               Selected(P) =>
                   /\ IsRegular(calls[i].after, backupPath(P))
                   /\ calls[i].after[backupPath(P)].content = calls[i].before[P].content

Converges(c) == ~Contains(ReplaceAll(c, opts.OldText, opts.NewText), opts.OldText)

C4_CountAllMatching ==
    \A i \in 1..Len(calls) :
        (calls[i].op = "replace" /\ ~Malformed(opts.Pattern) /\ opts.OldText # <<>>)
        => calls[i].ret.count =
               Cardinality({F \in RegularFiles(calls[i].before) : Selected(F)})

\* C4 as amended: the count is the number of matching regular files the
\* traversal reaches (those that can be stat'ed, in directories that can be
\* listed), whether or not they could be backed up, read or written
C4_CountReachedMatching ==
    \A i \in 1..Len(calls) :
        (calls[i].op = "replace" /\ ~Malformed(opts.Pattern) /\ opts.OldText # <<>>)
        => calls[i].ret.count =
               Cardinality({F \in RegularFiles(calls[i].before) :
                               Selected(F) /\ Visible(calls[i].before, F)})

C4_Witness ==
    /\ Len(calls) >= 1
    /\ calls[1].op = "replace"
    /\ opts.Pattern = <<"*">>
    /\ calls[1].ret.count = 2
    /\ \E F \in RegularFiles(calls[1].before) : Selected(F) /\ ~Visible(calls[1].before, F)
    /\ \E j \in 1..Len(calls[1].errs) : calls[1].errs[j].kind = "read"
    /\ Len(calls[1].ret.paths) = 1

\* C5 as claimed: a malformed pattern on a tree that contains a file yields
\* the invalid-pattern error, no modified path and no write
C5_MalformedAborts ==
    \A i \in 1..Len(calls) :
        (calls[i].op = "replace" /\ Malformed(opts.Pattern) /\ opts.OldText # <<>>
            /\ RegularFiles(calls[i].before) # {})
        => /\ calls[i].ret.err.kind = "pattern"
           /\ calls[i].ret.paths = <<>>
           /\ calls[i].after = calls[i].before
           /\ \A j \in 1..Len(calls[i].io) : calls[i].io[j].op # "write"

\* C5 as amended: the same, and a count of 0 and no read, when the
\* traversal reaches at least one regular file
C5_MalformedAbortsWhenReached ==
    \A i \in 1..Len(calls) :
        ( /\ calls[i].op = "replace"
          /\ Malformed(opts.Pattern)
          /\ opts.OldText # <<>>
          /\ \E F \in RegularFiles(calls[i].before) : Visible(calls[i].before, F) )
        => /\ calls[i].ret.err.kind = "pattern"
           /\ calls[i].ret.paths = <<>>
           /\ calls[i].ret.count = 0
           /\ calls[i].after = calls[i].before
           /\ \A j \in 1..Len(calls[i].io) : calls[i].io[j].op \notin {"write", "read"}

C5_Witness ==
    /\ Len(calls) >= 1
    /\ calls[1].op = "replace"
    /\ Malformed(opts.Pattern)
    /\ opts.ShouldBackup
    /\ calls[1].ret.err.kind = "pattern"
    /\ calls[1].errs # <<>>
    /\ \E F \in RegularFiles(calls[1].before) :
           Visible(calls[1].before, F) /\ Contains(calls[1].before[F].content, opts.OldText)

\* C6: with an empty OldText PerformReplacement returns an error at once,
\* with no path and a count of 0, and neither walks nor touches the tree
C6_EmptyOldTextRejected ==
    /\ pc = "replace" => opts.OldText # <<>>
    /\ \A i \in 1..Len(calls) :
           (calls[i].op = "replace" /\ opts.OldText = <<>>)
           => /\ calls[i].ret.err.kind = "empty"
              /\ calls[i].ret.paths = <<>>
              /\ calls[i].ret.count = 0
              /\ calls[i].after = calls[i].before
              /\ calls[i].io = <<>>

C6_Witness ==
    /\ Len(calls) >= 1
    /\ calls[1].op = "replace"
    /\ opts.OldText = <<>>
    /\ opts.ShouldBackup
    /\ Cardinality(RegularFiles(calls[1].before)) >= 2
    /\ ret = calls[1].ret

\* C7: PerformClean only deletes regular files whose name ends in ".bak":
\* during and after a run every directory and every file with another name
\* is where it was, unchanged, and nothing is created or rewritten
C7_CleanFrame ==
    /\ pc = "clean" =>
           /\ DOMAIN fs \subseteq DOMAIN fs0
           /\ \A p \in DOMAIN fs : fs[p] = fs0[p]
           /\ \A p \in DOMAIN fs0 \ DOMAIN fs : IsRegular(fs0, p) /\ HasSuffix(Base(p), BAK)
    /\ \A i \in 1..Len(calls) :
           calls[i].op = "clean" =>
               /\ DOMAIN calls[i].after \subseteq DOMAIN calls[i].before
               /\ \A p \in DOMAIN calls[i].after : calls[i].after[p] = calls[i].before[p]
               /\ \A p \in DOMAIN calls[i].before \ DOMAIN calls[i].after :
                      IsRegular(calls[i].before, p) /\ HasSuffix(Base(p), BAK)

C7_Witness ==
    /\ Len(calls) >= 1
    /\ calls[1].op = "clean"
    /\ calls[1].ret.count = 2
    /\ \E p \in DOMAIN calls[1].after : IsDir(calls[1].after, p) /\ Len(p) > 0
                                          /\ HasSuffix(Base(p), BAK)
    /\ \E p \in RegularFiles(calls[1].after) : ~HasSuffix(Base(p), BAK)

FirstOf(errs) == IF errs = <<>> THEN Nil ELSE errs[1]

\* C9: in the three engines the recorded error is always the first
\* non-fatal error of the traversal, it is what a traversal that was not
\* aborted returns, and after an error every entry the traversal reaches is
\* still visited
C9_FirstOneWins ==
    /\ pc # "idle" => firstEncounteredError = FirstOf(errLog)
    /\ \A i \in 1..Len(calls) :
           calls[i].ret.err.kind \notin {"pattern", "empty"} =>
               /\ calls[i].ret.err = FirstOf(calls[i].errs)
               /\ \A p \in DOMAIN calls[i].before :
                      Visible(calls[i].before, p) => InSeq(IO("lstat", p), calls[i].io)

C9_Witness ==
    /\ Len(calls) = 2
    /\ calls[1].op = "replace"
    /\ calls[2].op \in {"restore", "clean"}
    /\ \A i \in 1..2 :
           /\ Len(calls[i].errs) >= 2
           /\ calls[i].errs[1] # calls[i].errs[Len(calls[i].errs)]
           /\ calls[i].ret.err = calls[i].errs[1]
    /\ calls[1].ret.paths # <<>>

\* C10: when createBackup fails for a matched file the error is recorded
\* and the file is still read and, if it contains OldText and can be
\* written, rewritten and reported as modified
C10_BackupFailureDoesNotBlock ==
    [][(pc = "replace" /\ todo # <<>> /\ opts.ShouldBackup
            /\ WalkEntry(fs, Head(todo)) = "file"
            /\ matchesPattern(Base(Head(todo)), opts.Pattern).matched
            /\ ~createBackupOK(fs, Head(todo)))
       => LET P == Head(todo)
          IN /\ InSeq(Err("backup", P), errLog')
             /\ firstEncounteredError' = Record(firstEncounteredError, Err("backup", P))
             /\ InSeq(IO("read", P), SubSeq(ioLog', Len(ioLog) + 1, Len(ioLog')))
             /\ (ReadFileOK(fs, P) /\ Contains(fs[P].content, opts.OldText)
                    /\ WriteFileOK(fs, P))
                => /\ fs'[P].content = ReplaceAll(fs[P].content, opts.OldText, opts.NewText)
                   /\ modifiedFiles' = Append(modifiedFiles, P)]_vars

\* a file was modified although its backup failed, and no backup of it exists
C10_Witness ==
    /\ pc = "replace"
    /\ \E P \in RegularFiles(fs) :
           /\ InSeq(P, modifiedFiles)
           /\ InSeq(Err("backup", P), errLog)
           /\ firstEncounteredError = Err("backup", P)
           /\ ~Exists(fs, backupPath(P))
           /\ fs[P] # fs0[P]

\* the callback is about to run on a regular file the pattern selects
AtSelectedFile ==
    /\ pc = "replace"
    /\ todo # <<>>
    /\ WalkEntry(fs, Head(todo)) = "file"
    /\ matchesPattern(Base(Head(todo)), opts.Pattern).err = NoErr
    /\ matchesPattern(Base(Head(todo)), opts.Pattern).matched

\* the place of x in s
IndexOf(x, s) == CHOOSE i \in 1..Len(s) : s[i] = x

\* the I/O calls of the step being taken
StepIO == SubSeq(ioLog', Len(ioLog) + 1, Len(ioLog'))

\* C11: a callback of PerformReplacement appends the path to the modified
\* list exactly when the file is selected by the pattern, its content
\* contains OldText and the write succeeds; the file then holds its former
\* content with the occurrences of OldText replaced; a selected file without
\* OldText is not written and not listed; the list has no path twice, is in
\* traversal order, and is what PerformReplacement returns
C11_ModifiedExactly ==
    [][ /\ (pc = "replace" /\ todo # <<>>) =>
              LET P == Head(todo)
                  has == AtSelectedFile /\ ReadFileOK(fs, P)
                             /\ Contains(fs[P].content, opts.OldText)
                  done == has /\ WriteFileOK(fs, P)
              IN /\ modifiedFiles' = IF done THEN Append(modifiedFiles, P) ELSE modifiedFiles
                 /\ done => fs'[P] = File(ReplaceAll(fs[P].content, opts.OldText, opts.NewText),
                                          fs[P].mode)
                 /\ (~done /\ Exists(fs, P)) => (Exists(fs', P) /\ fs'[P] = fs[P])
                 /\ ~has => ~InSeq(IO("write", P), StepIO)
                 /\ \A i, j \in 1..Len(modifiedFiles') :
                        i < j => /\ modifiedFiles'[i] # modifiedFiles'[j]
                                 /\ IndexOf(IO("lstat", modifiedFiles'[i]), ioLog')
                                        < IndexOf(IO("lstat", modifiedFiles'[j]), ioLog')
        /\ (pc = "replace" /\ pc' = "idle") => ret'.paths = modifiedFiles ]_vars

\* a run listed two files and failed to write a third; the next run read a
\* selected file that no longer contains OldText and left it alone
C11_Witness ==
    /\ Consecutive(1, "replace", "replace")
    /\ Len(calls[1].ret.paths) = 2
    /\ \E j \in 1..Len(calls[1].errs) : calls[1].errs[j].kind = "write"
    /\ \E P \in RegularFiles(calls[2].before) :
           /\ InSeq(IO("read", P), calls[2].io)
           /\ ~InSeq(IO("write", P), calls[2].io)
           /\ ~Contains(calls[2].before[P].content, opts.OldText)
           /\ ~InSeq(P, calls[2].ret.paths)

\* the callback of PerformRestore is about to run on a regular file named *.bak
AtBackupFile ==
    /\ pc = "restore"
    /\ todo # <<>>
    /\ WalkEntry(fs, Head(todo)) = "file"
    /\ IsBackupFile(fs, Head(todo))

\* the number of entries of s that satisfy Test
CountIn(s, Test(_)) == Cardinality({k \in 1..Len(s) : Test(s[k])})

\* C12: when the rename of a visited backup B = P.bak succeeds, P holds what
\* B held (content and mode), whatever was at P before, B is gone, nothing
\* else changed, one "Restored" message is appended and the counter grows
\* by one; no other callback changes the tree, the messages or the counter;
\* the returned count is the number of renames that succeeded
C12_RestoreRenames ==
    [][ /\ (AtBackupFile /\ RenameOK(fs, Head(todo), originalPath(Head(todo)))) =>
              LET B == Head(todo)
                  P == originalPath(B)
              IN /\ Exists(fs', P)
                 /\ fs'[P] = fs[B]
                 /\ ~Exists(fs', B)
                 /\ DOMAIN fs' = (DOMAIN fs \ {B}) \cup {P}
                 /\ \A q \in DOMAIN fs \ {B, P} : fs'[q] = fs[q]
                 /\ messages' = Append(messages, [kind |-> "Restored", path |-> P, from |-> B])
                 /\ filesRestored' = filesRestored + 1
        /\ (pc = "restore" /\ todo # <<>>
               /\ ~(AtBackupFile /\ RenameOK(fs, Head(todo), originalPath(Head(todo))))) =>
              /\ fs' = fs
              /\ messages' = messages
              /\ filesRestored' = filesRestored
        /\ (pc = "restore" /\ pc' = "idle") =>
              /\ ret'.count = filesRestored
              /\ ret'.count = CountIn(ioLog, LAMBDA c : c.op = "rename")
                                  - CountIn(errLog, LAMBDA e : e.kind = "rename")
              /\ ret'.count = CountIn(ret'.paths, LAMBDA m : m.kind = "Restored") ]_vars

\* a restore put one backup over a file that held something else and another
\* backup at a name that did not exist
C12_Witness ==
    /\ Len(calls) >= 1
    /\ calls[1].op = "restore"
    /\ calls[1].ret.count = 2
    /\ \E B \in RegularFiles(calls[1].before) :
           /\ IsBackupFile(calls[1].before, B)
           /\ Exists(calls[1].before, originalPath(B))
           /\ calls[1].before[originalPath(B)] # calls[1].before[B]
           /\ calls[1].after[originalPath(B)] = calls[1].before[B]
           /\ ~Exists(calls[1].after, B)
    /\ \E B \in RegularFiles(calls[1].before) :
           /\ IsBackupFile(calls[1].before, B)
           /\ ~Exists(calls[1].before, originalPath(B))
           /\ calls[1].after[originalPath(B)] = calls[1].before[B]

\* C13: PerformRestore and PerformClean return their "No .bak files found"
\* message exactly when the count is 0 and no error was recorded; it is then
\* the only message and the error is nil; a run that returns an error and a
\* count of 0 returns no message at all
C13_NoBakMessage ==
    \A i \in 1..Len(calls) :
        calls[i].op \in {"restore", "clean"} =>
            LET r == calls[i].ret
                said == \E k \in 1..Len(r.paths) : r.paths[k].kind = "NoBakFound"
            IN /\ said <=> (r.count = 0 /\ calls[i].errs = <<>>)
               /\ said => (r.err = Nil /\ r.paths = <<NoBakMessage(calls[i].op)>>)
               /\ (r.err # Nil /\ r.count = 0) => r.paths = <<>>

\* a clean that deleted a backup and recorded an error, then a clean that
\* found nothing to delete and returned the error without the message
C13_Witness ==
    /\ Consecutive(1, "clean", "clean")
    /\ calls[1].ret.count >= 1
    /\ calls[1].ret.err # Nil
    /\ calls[2].ret.count = 0
    /\ calls[2].ret.err # Nil
    /\ calls[2].ret.paths = <<>>

\* C14: after a replace run with backups, every selected file the traversal
\* reached and backed up without error has a P.bak with the permission bits
\* of P, and every rewritten file has the permission bits it had before
C14_PermissionsPreserved ==
    \A i \in 1..Len(calls) :
        (calls[i].op = "replace" /\ opts.ShouldBackup /\ opts.OldText # <<>>
            /\ ~Malformed(opts.Pattern))
        => \A P \in RegularFiles(calls[i].before) :
               /\ (Selected(P) /\ Visible(calls[i].before, P)
                      /\ ~InSeq(Err("backup", P), calls[i].errs))
                  => /\ IsRegular(calls[i].after, backupPath(P))
                     /\ calls[i].after[backupPath(P)].mode = calls[i].before[P].mode
               /\ InSeq(P, calls[i].ret.paths)
                  => calls[i].after[P].mode = calls[i].before[P].mode

\* the callback of PerformReplacement is about to run on a regular file for
\* which matchesPattern returns an error
AtPatternError ==
    /\ pc = "replace"
    /\ todo # <<>>
    /\ WalkEntry(fs, Head(todo)) = "file"
    /\ matchesPattern(Base(Head(todo)), opts.Pattern).err # NoErr

\* C19: the callback that meets a pattern error ends the traversal: it
\* counts, backs up, reads and writes nothing, nothing is left to visit, and
\* the only step after it is the return of what was gathered before it
\* together with the invalid-pattern error
C19_PatternErrorAborts ==
    [][ /\ AtPatternError =>
              /\ walkErr' = Err("pattern", opts.Pattern)
              /\ todo' = <<>>
              /\ fs' = fs
              /\ filesProcessed' = filesProcessed
              /\ modifiedFiles' = modifiedFiles
              /\ StepIO = <<IO("lstat", Head(todo))>>
        /\ (pc = "replace" /\ walkErr # Nil) =>
              /\ pc' = "idle"
              /\ fs' = fs
              /\ ret' = [op |-> "replace", paths |-> modifiedFiles, count |-> filesProcessed,
                         err |-> Err("pattern", opts.Pattern)]
              /\ calls'[Len(calls')].io = ioLog
              /\ calls'[Len(calls')].after = fs ]_vars

\* a run recorded an access error, then met the pattern error at a file and
\* returned it, leaving a later file unvisited
C19_Witness ==
    /\ Len(calls) >= 1
    /\ calls[1].op = "replace"
    /\ calls[1].ret.err = Err("pattern", opts.Pattern)
    /\ calls[1].errs # <<>>
    /\ opts.ShouldBackup
    /\ \E P \in RegularFiles(calls[1].before) :
           /\ Visible(calls[1].before, P)
           /\ Contains(calls[1].before[P].content, opts.OldText)
           /\ ~InSeq(IO("lstat", P), calls[1].io)

\* the callback of an engine is about to receive a path with an error of
\* filepath.Walk (a failed Lstat, or a directory that cannot be listed)
AtAccessError ==
    /\ pc \in {"replace", "restore", "clean"}
    /\ todo # <<>>
    /\ WalkEntry(fs, Head(todo)) \in {"lstat", "readdir"}

\* the I/O call by which an engine processes file p
ProcessIO(op, p) ==
    CASE op = "replace" -> IO("read", p)
      [] op = "restore" -> IO("rename", p)
      [] op = "clean" -> IO("remove", p)

\* engine op processes the regular file p of tree f
Processes(op, f, p) ==
    IF op = "replace" THEN Selected(p) ELSE IsBackupFile(f, p)

\* C20: in the three engines a callback that receives an access error
\* records it as a non-fatal error and only drops that path: the traversal
\* goes on with what was left to visit, and the tree and the counters are
\* untouched; the run then returns an error, has visited every path that
\* can be reached and processed every such file it selects, and has left
\* every path that cannot be reached as it was
C20_AccessErrorSkipsOnlyPath ==
    [][ /\ AtAccessError =>
              /\ errLog' = Append(errLog, Err("access", Head(todo)))
              /\ firstEncounteredError' # Nil
              /\ walkErr' = Nil
              /\ todo' = Tail(todo)
              /\ pc' = pc
              /\ fs' = fs
              /\ <<filesProcessed', filesRestored', filesCleaned'>>
                     = <<filesProcessed, filesRestored, filesCleaned>>
              /\ <<modifiedFiles', messages'>> = <<modifiedFiles, messages>>
        /\ (pc \in {"replace", "restore", "clean"} /\ pc' = "idle" /\ walkErr = Nil
               /\ \E k \in 1..Len(errLog) : errLog[k].kind = "access") =>
              LET c == calls'[Len(calls')]
              IN /\ c.ret.err # Nil
                 /\ \A p \in DOMAIN c.before :
                        IF Visible(c.before, p)
                        THEN /\ InSeq(IO("lstat", p), c.io)
                             /\ (IsRegular(c.before, p) /\ Processes(c.op, c.before, p))
                                    => InSeq(ProcessIO(c.op, p), c.io)
                        ELSE /\ Exists(c.after, p)
                             /\ c.after[p] = c.before[p]
                             /\ \A k \in 1..Len(c.io) :
                                    c.io[k].path = p => c.io[k].op = "lstat" ]_vars

\* a replace and then a restore or clean each met an access error first and
\* still processed a file that comes later in the traversal
C20_Witness ==
    /\ Len(calls) = 2
    /\ calls[1].op = "replace"
    /\ calls[2].op \in {"restore", "clean"}
    /\ \A i \in 1..2 :
           /\ calls[i].errs # <<>>
           /\ calls[i].errs[1].kind = "access"
           /\ calls[i].ret.err = calls[i].errs[1]
           /\ calls[i].ret.count >= 1
           /\ calls[i].after # calls[i].before

\* the process ran an engine from the command line and has exited
CliDone == cli.phase = "exited" /\ cli.mode \in {"clean", "restore", "replace"}

\* C15: a process that ran an engine from the command line exits with
\* status 0 exactly when the engine returned a nil error, and with a status
\* other than 0 when it returned an error, whether or not files were
\* modified, restored or cleaned
C15_ExitCode ==
    CliDone =>
        /\ Len(calls) = 1
        /\ calls[1].op = cli.mode
        /\ cli.exit = 0 <=> calls[1].ret.err = Nil
        /\ calls[1].ret.err # Nil => cli.exit > 0

\* a replace from the command line modified a file, returned an error and
\* the process exited with status 1
C15_Witness ==
    /\ CliDone
    /\ cli.mode = "replace"
    /\ itemsAffected(calls[1].ret) >= 1
    /\ calls[1].ret.err # Nil
    /\ cli.exit = 1

\* the output out tells that n files were affected, or names them all
TellsCount(out, r) ==
    \/ \E k \in 1..Len(out) : "n" \in DOMAIN out[k] /\ out[k].n = itemsAffected(r)
    \/ /\ r.op = "replace"
       /\ \A i \in 1..Len(r.paths) :
              \E k \in 1..Len(out) : "path" \in DOMAIN out[k] /\ out[k].path = r.paths[i]

\* the output out tells the error e
TellsError(out, e) ==
    \E k \in 1..Len(out) :
        \/ "err" \in DOMAIN out[k] /\ out[k].err = e
        \/ /\ "text" \in DOMAIN out[k]
           /\ "err" \in DOMAIN out[k].text
           /\ out[k].text.err = e

\* the wizard shows the outcome of the engine run it handled last
WizardShows ==
    /\ cli.phase = "wizard"
    /\ wiz.step \in {"stepShowResult", "stepError"}
    /\ ~wiz.isLoading
    /\ ~wiz.quitting
    /\ wiz.handled >= 1

\* C16: when an engine run returned an error after one or more files were
\* modified, restored or cleaned, the output of the command line, and what
\* the wizard shows, tell both the number (or the paths) and the error
C16_CountAndErrorSurfaced ==
    /\ (CliDone /\ calls[1].ret.err # Nil /\ itemsAffected(calls[1].ret) >= 1) =>
           /\ TellsError(cli.stdout \o cli.stderr, calls[1].ret.err)
           /\ TellsCount(cli.stdout \o cli.stderr, calls[1].ret)
    /\ (WizardShows /\ calls[wiz.handled].ret.err # Nil
           /\ itemsAffected(calls[wiz.handled].ret) >= 1) =>
           /\ TellsError(View(wiz), calls[wiz.handled].ret.err)
           /\ TellsCount(View(wiz), calls[wiz.handled].ret)

\* none of -old, -restore, -clean, -wizard and -version is given
NoOperationFlag ==
    /\ ~cli.flags.wizard
    /\ ~cli.flags.restore
    /\ ~cli.flags.clean
    /\ ~cli.flags.version
    /\ opts.OldText = <<>>

RECURSIVE RunAlone(_, _, _)
RunOn(r, um) == RunAlone(r.l, r.fs, um)

RunAlone(l, f, um) ==
    IF l.todo = <<>> THEN [ret |-> EngineResult(l), fs |-> f]
    ELSE RunOn(EngineStep(l, f, um), um)

\* the part of tree f at and below directory d
SubtreeOf(f, d) == [p \in {q \in DOMAIN f : HasPrefix(q, d)} |-> f[p]]

\* C17: in every interleaving of the callbacks of two invocations on
\* disjoint directories, an invocation that has returned has returned the
\* paths, count and error, and left in its directory the tree, that it
\* returns and leaves when it runs alone from the initial file system
C17_NoInterference ==
    \A i \in DOMAIN conc :
        conc[i].pc = "done" =>
            LET alone == RunAlone(Invocation(conc[i].op, conc[i].dir, conc[i].opts),
                                  fs0, umask)
            IN /\ conc[i].ret = alone.ret
               /\ SubtreeOf(fs, conc[i].dir) = SubtreeOf(alone.fs, conc[i].dir)

\* an invocation has returned, having changed its tree and met an error,
\* while the other, started before it returned, has processed a file,
\* changed its tree and is not done
C17_Witness ==
    /\ conc # NoConc
    /\ \E i, j \in DOMAIN conc :
           /\ i # j
           /\ conc[i].pc = "done"
           /\ conc[i].ret.count >= 1
           /\ conc[i].ret.err # Nil
           /\ SubtreeOf(fs, conc[i].dir) # SubtreeOf(fs0, conc[i].dir)
           /\ conc[j].pc = "walk"
           /\ conc[j].todo # <<>>
           /\ conc[j].count >= 1
           /\ SubtreeOf(fs, conc[j].dir) # SubtreeOf(fs0, conc[j].dir)

\* the pattern is well-formed and does not select the file p
NotSelected(p) ==
    /\ matchesPattern(Base(p), opts.Pattern).err = NoErr
    /\ ~matchesPattern(Base(p), opts.Pattern).matched

\* the callback of PerformReplacement is called for a file the pattern does
\* not select
AtUnselectedFile ==
    /\ pc = "replace"
    /\ todo # <<>>
    /\ WalkEntry(fs, Head(todo)) = "file"
    /\ NotSelected(Head(todo))

\* p is where the run of tree f keeps the backup of a file it selects
IsBackupOfSelected(f, p) ==
    /\ opts.ShouldBackup
    /\ \E q \in RegularFiles(f) : Selected(q) /\ backupPath(q) = p

\* C22 as stated: a completed PerformReplacement has left every regular file
\* whose base name the pattern does not select as it was, has made no call
\* on it but walk's lstat, has not listed it, and has neither created nor
\* changed a .bak for it
C22_NonMatchingUntouched ==
    (calls # <<>> /\ calls[Len(calls)].op = "replace") =>
        LET c == calls[Len(calls)]
        IN \A p \in RegularFiles(c.before) :
               NotSelected(p) =>
                   /\ Exists(c.after, p)
                   /\ c.after[p] = c.before[p]
                   /\ ~InSeq(p, c.ret.paths)
                   /\ \A k \in 1..Len(c.io) : c.io[k].path = p => c.io[k].op = "lstat"
                   /\ Exists(c.after, backupPath(p)) =>
                          /\ Exists(c.before, backupPath(p))
                          /\ NotSelected(backupPath(p)) =>
                                 c.after[backupPath(p)] = c.before[backupPath(p)]

\* C22: the callback called for a file the pattern does not select changes
\* nothing and makes no I/O call: the file is not counted, backed up, read,
\* written or listed; over a whole run such a file is never read or listed,
\* and it is written only as the backup P.bak of a selected file P of a run
\* that makes backups; the run creates no other file
C22_NonMatchingUntouchedByCallback ==
    [][ /\ AtUnselectedFile =>
              /\ fs' = fs
              /\ filesProcessed' = filesProcessed
              /\ modifiedFiles' = modifiedFiles
              /\ StepIO = <<IO("lstat", Head(todo))>>
              /\ errLog' = errLog
              /\ firstEncounteredError' = firstEncounteredError
              /\ walkErr' = walkErr
              /\ todo' = Tail(todo)
        /\ (pc = "replace" /\ pc' = "idle") =>
              LET c == calls'[Len(calls')]
              IN /\ \A p \in RegularFiles(c.before) :
                        NotSelected(p) =>
                            /\ ~InSeq(p, c.ret.paths)
                            /\ ~InSeq(IO("read", p), c.io)
                            /\ \A k \in 1..Len(c.io) :
                                   c.io[k].path = p =>
                                       \/ c.io[k].op = "lstat"
                                       \/ c.io[k].op = "write"
                                              /\ IsBackupOfSelected(c.before, p)
                            /\ ~IsBackupOfSelected(c.before, p) =>
                                   Exists(c.after, p) /\ c.after[p] = c.before[p]
                 /\ \A p \in DOMAIN c.after \ DOMAIN c.before :
                        IsBackupOfSelected(c.before, p) ]_vars

\* a run with a pattern that selects one file out of three has rewritten
\* that file, has overwritten the older backup of it, which the pattern does
\* not select, and has left the third file as it was
C22_Witness ==
    /\ calls # <<>>
    /\ LET c == calls[Len(calls)]
       IN /\ c.op = "replace"
          /\ c.ret.count = 1
          /\ Len(c.ret.paths) = 1
          /\ \E p, q \in RegularFiles(c.before) :
                 /\ NotSelected(p)
                 /\ NotSelected(q)
                 /\ c.after[p] # c.before[p]
                 /\ ~IsBackupOfSelected(c.before, q)
                 /\ InSeq(IO("lstat", q), c.io)

\* the callback of PerformReplacement is called for a selected file that
\* cannot be read
AtUnreadableFile == AtSelectedFile /\ ~ReadFileOK(fs, Head(todo))

\* the errors reported by the step being taken
StepErrs == SubSeq(errLog', Len(errLog) + 1, Len(errLog'))

\* C30: the callback called for a selected file that cannot be read counts
\* the file, reports the read error and records it unless an error was
\* recorded before it (by an earlier file, or by the failed backup of this
\* one), makes no write to the file, leaves it as it was, does not list it,
\* and the traversal goes on with what was left to visit
C30_ReadFailureSkipsFile ==
    [][ AtUnreadableFile =>
            LET P == Head(todo)
            IN /\ filesProcessed' = filesProcessed + 1
               /\ InSeq(Err("read", P), StepErrs)
               /\ firstEncounteredError' # Nil
               /\ firstEncounteredError # Nil => firstEncounteredError' = firstEncounteredError
               /\ (firstEncounteredError = Nil /\ ~opts.ShouldBackup) =>
                      firstEncounteredError' = Err("read", P)
               /\ (firstEncounteredError = Nil /\ opts.ShouldBackup) =>
                      firstEncounteredError' = Err("backup", P)
               /\ InSeq(IO("read", P), StepIO)
               /\ ~InSeq(IO("write", P), StepIO)
               /\ Exists(fs', P) /\ fs'[P] = fs[P]
               /\ modifiedFiles' = modifiedFiles
               /\ todo' = Tail(todo)
               /\ pc' = pc
               /\ walkErr' = Nil ]_vars

\* a run has met a read error as its first error and has gone on to rewrite
\* and list a later file
C30_Witness ==
    /\ calls # <<>>
    /\ LET c == calls[Len(calls)]
       IN /\ c.op = "replace"
          /\ c.errs # <<>>
          /\ c.errs[1].kind = "read"
          /\ c.ret.err = c.errs[1]
          /\ c.ret.count >= 2
          /\ \E i \in 1..Len(c.io) :
                 /\ c.io[i] = IO("read", c.errs[1].path)
                 /\ \E j \in (i + 1)..Len(c.io) :
                        /\ c.io[j].op = "write"
                        /\ c.io[j].path \in {c.ret.paths[k] : k \in 1..Len(c.ret.paths)}
                        /\ c.io[j].path # c.errs[1].path

\* an engine has been called and has not returned
EngineRunning == pc \in {"replace", "restore", "clean"}

\* walk has called lstat on no path twice
NoRevisit ==
    \A i, j \in 1..Len(ioLog) :
        (i < j /\ ioLog[i].op = "lstat" /\ ioLog[j].op = "lstat") =>
            ioLog[i].path # ioLog[j].path

\* the engine that returned had visited every path of the tree it was called
\* on that can be listed, unless the pattern error ended the walk (or the
\* request was rejected before it)
TraversedOrAborted ==
    (pc = "idle" /\ calls # <<>>) =>
        LET c == calls[Len(calls)]
        IN \/ c.ret.err.kind \in {"pattern", "empty"}
           \/ \A p \in DOMAIN c.before :
                  Visible(c.before, p) => InSeq(IO("lstat", p), c.io)

\* C21: an engine that has been called returns; walk visits no entry twice,
\* and at the return either every entry that can be listed has been visited
\* or the run ended on the pattern error
C21_Terminates ==
    /\ [](NoRevisit /\ TraversedOrAborted)
    /\ EngineRunning ~> (pc = "idle" /\ calls # <<>>)

\* an engine has returned without error after visiting an entry of a
\* sub-directory and changing the tree
C21_Witness ==
    /\ pc = "idle"
    /\ calls # <<>>
    /\ LET c == calls[Len(calls)]
       IN /\ c.ret.err = Nil
          /\ c.after # c.before
          /\ \E k \in 1..Len(c.io) : c.io[k].op = "lstat" /\ Len(c.io[k].path) = 2

\* the commands the wizard has dispatched whose message Update has not
\* received
InFlight == Len(wiz.cmds) - wiz.handled

\* C23 as stated: the wizard has at most one command in flight
C23_OneInFlight == wiz # NoWiz => InFlight <= 1

\* the steps of the wizard for an action, in order
ReplacePath ==
    <<"stepChooseAction", "stepEnterDir", "stepEnterPattern", "stepEnterOldText",
      "stepEnterNewText", "stepConfirmBackup", "stepConfirmOperation">>

ShortPath == <<"stepChooseAction", "stepEnterDir", "stepConfirmOperation">>

PathOf(action) ==
    IF action = actionReplace THEN ReplacePath
    ELSE IF action \in {actionRestore, actionClean} THEN ShortPath
    ELSE <<"stepChooseAction">>

\* the step after and before st on a path; st itself at the ends and off
\* the path
NextOn(path, st) ==
    IF \E i \in 1..(Len(path) - 1) : path[i] = st THEN path[IndexOf(st, path) + 1] ELSE st

PrevOn(path, st) ==
    IF \E i \in 2..Len(path) : path[i] = st THEN path[IndexOf(st, path) - 1] ELSE st

\* the data the wizard collects
Collected(w) ==
    <<w.selectedAction, w.targetDir, w.filePattern, w.oldText, w.newText, w.shouldBackup>>

\* C24: whenever the wizard dispatches a Replace operation, the text to
\* replace is not empty, the pattern is not empty and passes the syntax
\* check of the wizard, and the directory is not empty and names an
\* existing directory
C24_ValidatedAtDispatch ==
    [][ (wiz # NoWiz /\ wiz' # NoWiz /\ Len(wiz'.cmds) = Len(wiz.cmds) + 1
             /\ wiz.selectedAction = actionReplace) =>
            LET c == wiz'.cmds[Len(wiz'.cmds)]
            IN /\ c.action = actionReplace
               /\ c.opts.OldText = wiz.oldText
               /\ c.opts.OldText # <<>>
               /\ c.opts.Pattern = wiz.filePattern
               /\ c.opts.Pattern # <<>>
               /\ \/ c.opts.Pattern = <<"*">>
                  \/ Match(c.opts.Pattern, TestFileName).err = NoErr
               /\ wiz.targetDir # <<>>
               /\ LstatOK(fs, DirPath(wiz.targetDir))
               /\ IsDir(fs, DirPath(wiz.targetDir)) ]_vars

\* a second Replace has been dispatched, in a pass through the steps begun
\* after the result of the first one was shown
C24_Witness ==
    /\ wiz # NoWiz
    /\ Len(wiz.cmds) = 2
    /\ wiz.cmds[1].action = actionReplace
    /\ wiz.cmds[2].action = actionReplace
    /\ wiz.handled = 1
    /\ wiz.isLoading
    /\ wiz.step = "stepConfirmOperation"

\* C25: the wizard is on a step of the path of the selected action (or
\* shows a result or an error); with Restore or Clean selected it is never
\* on the pattern, text or backup steps; a change of step is the next step
\* of the path, the step before it, the return to the main menu, or the
\* result or error of a message; a command is made only at the
\* confirmation step, for the selected action and the collected values
C25_StepPaths ==
    [][ (wiz # NoWiz /\ wiz' # NoWiz) =>
            /\ wiz.step \in {"stepShowResult", "stepError"}
                   \cup {PathOf(wiz.selectedAction)[i] :
                            i \in 1..Len(PathOf(wiz.selectedAction))}
            /\ wiz.selectedAction \in {actionRestore, actionClean} =>
                   wiz.step \notin {"stepEnterPattern", "stepEnterOldText",
                                    "stepEnterNewText", "stepConfirmBackup"}
            /\ wiz'.step # wiz.step =>
                   \/ wiz'.step = NextOn(PathOf(wiz'.selectedAction), wiz.step)
                   \/ wiz'.step = PrevOn(PathOf(wiz.selectedAction), wiz.step)
                   \/ wiz'.step = "stepChooseAction"
                   \/ /\ wiz'.step \in {"stepShowResult", "stepError"}
                      /\ wiz'.handled = wiz.handled + 1
            /\ wiz'.cmds # wiz.cmds =>
                   /\ wiz.step = "stepConfirmOperation"
                   /\ wiz.selectedAction \in {actionReplace, actionRestore, actionClean}
                   /\ wiz'.cmds =
                          Append(wiz.cmds,
                                 [action |-> wiz.selectedAction,
                                  opts |-> [Pattern |-> wiz.filePattern,
                                            OldText |-> wiz.oldText,
                                            NewText |-> wiz.newText,
                                            ShouldBackup |-> wiz.shouldBackup]]) ]_vars

\* a Replace and then a Restore or Clean have been dispatched, and the
\* second one has been run
C25_Witness ==
    /\ wiz # NoWiz
    /\ Len(wiz.cmds) = 2
    /\ wiz.cmds[1].action = actionReplace
    /\ wiz.cmds[2].action \in {actionRestore, actionClean}
    /\ wiz.cmds[2].opts.Pattern = <<>>
    /\ wiz.handled = 2

\* where Esc leads from the state w
EscTarget(w) ==
    IF w.step \in {"stepShowResult", "stepError"} THEN "stepChooseAction"
    ELSE PrevOn(PathOf(w.selectedAction), w.step)

C27_NoCancelWhileLoading ==
    [][ (wiz # NoWiz /\ wiz' # NoWiz /\ wiz.isLoading) =>
            /\ UpdateEsc(wiz) = wiz
            /\ wiz.step = "stepConfirmOperation"
            /\ ~wiz'.isLoading =>
                   /\ wiz'.handled = wiz.handled + 1
                   /\ wiz'.step \in {"stepShowResult", "stepError"}
            /\ wiz'.isLoading =>
                   /\ wiz'.step = wiz.step
                   /\ Collected(wiz') = Collected(wiz)
                   /\ wiz'.handled = wiz.handled ]_vars

\* an engine is in the middle of its walk while the wizard is loading
C27_Witness ==
    /\ wiz # NoWiz
    /\ wiz.isLoading
    /\ ~wiz.quitting
    /\ EngineRunning
    /\ todo # <<>>
    /\ ioLog # <<>>

\* C29: at the main menu, unless the wizard is quitting, nothing collected
\* or shown is left: no action, directory, pattern, texts, error message or
\* result messages, no backup choice, not loading
C29_MainMenuCleared ==
    (wiz # NoWiz /\ wiz.step = "stepChooseAction" /\ ~wiz.quitting) =>
        /\ Collected(wiz) = <<"", <<>>, <<>>, <<>>, <<>>, FALSE>>
        /\ wiz.errorMessage = NoText
        /\ wiz.resultMessages = <<>>
        /\ ~wiz.isLoading

\* the wizard is back at the main menu after the result of a Replace with
\* backups was shown, with a second command still in flight
C29_Witness ==
    /\ wiz # NoWiz
    /\ wiz.step = "stepChooseAction"
    /\ ~wiz.quitting
    /\ wiz.handled = 1
    /\ Len(wiz.cmds) = 2
    /\ wiz.cmds[1].action = actionReplace
    /\ wiz.cmds[1].opts.ShouldBackup

\* C28: once a command is dispatched, unless the user quits, Update receives
\* its message; on receiving it the wizard stops loading and goes to the
\* result step when the engine returned no error and to the error step when
\* it returned one
C28_ResultOrErrorShown ==
    /\ [][ (wiz # NoWiz /\ wiz' # NoWiz /\ wiz'.handled = wiz.handled + 1) =>
               /\ ~wiz'.isLoading
               /\ wiz'.step = IF calls[wiz'.handled].ret.err = Nil
                              THEN "stepShowResult" ELSE "stepError" ]_vars
    /\ (wiz # NoWiz /\ wiz.handled < Len(wiz.cmds))
           ~> (wiz.quitting \/ wiz.handled = Len(wiz.cmds))

\* the messages of a replacement and of a restoration that both returned an
\* error have been received, and the wizard shows the error of the second
C28_Witness ==
    /\ wiz # NoWiz
    /\ wiz.handled = 2
    /\ calls[1].op = "replace" /\ calls[1].ret.err # Nil
    /\ calls[2].op = "restore" /\ calls[2].ret.err # Nil
    /\ wiz.step = "stepError"
    /\ ~wiz.isLoading

\* the callback of PerformReplacement is called for a selected file that
\* can be read, contains OldText and cannot be written
AtUnwritableFile ==
    /\ AtSelectedFile
    /\ ReadFileOK(fs, Head(todo))
    /\ Contains(fs[Head(todo)].content, opts.OldText)
    /\ ~WriteFileOK(fs, Head(todo))

\* C31: the callback called for a selected file whose write fails reports
\* the write error and records it unless an error was recorded before it (by
\* an earlier file, or by the failed backup of this one), does not list the
\* file, and the traversal goes on with what was left to visit; and a
\* callback lists a path only when it wrote the file and the write succeeded
C31_WriteFailureNotListed ==
    [][ /\ AtUnwritableFile =>
              LET P == Head(todo)
              IN /\ InSeq(IO("write", P), StepIO)
                 /\ InSeq(Err("write", P), StepErrs)
                 /\ firstEncounteredError' # Nil
                 /\ firstEncounteredError # Nil =>
                        firstEncounteredError' = firstEncounteredError
                 /\ (firstEncounteredError = Nil
                        /\ (opts.ShouldBackup => createBackupOK(fs, P))) =>
                        firstEncounteredError' = Err("write", P)
                 /\ modifiedFiles' = modifiedFiles
                 /\ todo' = Tail(todo)
                 /\ pc' = pc
                 /\ walkErr' = Nil
        /\ (pc = "replace" /\ pc' = "replace" /\ modifiedFiles' # modifiedFiles) =>
              /\ modifiedFiles' = Append(modifiedFiles, Head(todo))
              /\ WriteFileOK(fs, Head(todo))
              /\ InSeq(IO("write", Head(todo)), StepIO)
              /\ ~InSeq(Err("write", Head(todo)), StepErrs) ]_vars

\* a run has met a write error as its first error, has not listed that file,
\* and has gone on to rewrite and list a later one
C31_Witness ==
    /\ calls # <<>>
    /\ LET c == calls[Len(calls)]
       IN /\ c.op = "replace"
          /\ c.errs # <<>>
          /\ c.errs[1].kind = "write"
          /\ c.ret.err = c.errs[1]
          /\ ~InSeq(c.errs[1].path, c.ret.paths)
          /\ \E i \in 1..Len(c.io) :
                 /\ c.io[i] = IO("write", c.errs[1].path)
                 /\ \E j \in (i + 1)..Len(c.io) :
                        /\ c.io[j].op = "write"
                        /\ InSeq(c.io[j].path, c.ret.paths)

\* the paths of sequence s
Listed(s) == {s[k] : k \in 1..Len(s)}

\* the request replaces a text by itself
SameText == opts.OldText = opts.NewText

AtDirectory ==
    /\ pc \in {"replace", "restore", "clean"}
    /\ todo # <<>>
    /\ LstatOK(fs, Head(todo))
    /\ IsDir(fs, Head(todo))

AtListedDirectory == AtDirectory /\ ReadDirOK(fs, Head(todo))

\* the operations the engines make on the files they select
FileOps == {"read", "stat", "write", "rename", "remove"}

\* C33: the callback of each engine called for a directory, whatever its
\* name, counts nothing, lists nothing, changes nothing in the file system
\* and calls no file operation; when the names of the directory were read
\* it reports no error and the entries of the directory are the next ones
\* visited.  So a finished run leaves every directory in place, as it was
C33_DirectoriesNotSelected ==
    /\ [][ /\ AtDirectory =>
                  /\ fs' = fs
                  /\ filesProcessed' = filesProcessed
                  /\ filesRestored' = filesRestored
                  /\ filesCleaned' = filesCleaned
                  /\ modifiedFiles' = modifiedFiles
                  /\ messages' = messages
                  /\ \A k \in 1..Len(StepIO) : StepIO[k].op \notin FileOps
                  /\ pc' = pc
           /\ AtListedDirectory =>
                  /\ errLog' = errLog
                  /\ firstEncounteredError' = firstEncounteredError
                  /\ walkErr' = walkErr
                  /\ todo' = Children(fs, Head(todo)) \o Tail(todo) ]_vars
    /\ [](\A i \in 1..Len(calls) : \A d \in DOMAIN calls[i].before :
              (IsDir(calls[i].before, d)) =>
                  /\ Exists(calls[i].after, d)
                  /\ calls[i].after[d] = calls[i].before[d]
                  /\ \A k \in 1..Len(calls[i].io) :
                         (calls[i].io[k].path = d => calls[i].io[k].op \notin FileOps))

\* a replacement with pattern "*" and backups went through the directory
\* .bak, made no backup of it and rewrote the file in it; the restoration
\* that followed left the directory in place and restored a file in it
C33_Witness ==
    /\ Consecutive(1, "replace", "restore")
    /\ opts.Pattern = <<"*">>
    /\ opts.ShouldBackup
    /\ IsDir(calls[1].before, <<BAK>>)
    /\ InSeq(Join(<<BAK>>, NameC \o BAK), calls[1].ret.paths)
    /\ ~Exists(calls[1].after, <<BAK \o BAK>>)
    /\ ~InSeq(<<BAK>>, calls[1].ret.paths)
    /\ IsDir(calls[2].after, <<BAK>>)
    /\ \E k \in 1..Len(calls[2].ret.paths) :
           /\ calls[2].ret.paths[k].kind = "Restored"
           /\ Parent(calls[2].ret.paths[k].from) = <<BAK>>

\* PerformRestore or PerformClean is in its traversal
Sweeping == pc \in {"restore", "clean"}

\* the operation the sweeping engine makes on a backup file
SweepOp(op) == IF op = "restore" THEN "rename" ELSE "remove"

\* the .bak files of tree f that the traversal of f reaches
ReachedBackups(f) ==
    {p \in RegularFiles(f) : Visible(f, p) /\ HasSuffix(Base(p), BAK)}

\* C34: no callback of PerformRestore or PerformClean ends the traversal:
\* whatever the entry (an access, rename or remove failure included) the
\* entries left to visit stay to be visited and filepath.Walk returns no
\* error, so the run returns the first recorded error; every .bak file
\* the traversal of the initial tree reaches is renamed or removed, or the
\* attempt is made; a root that does not exist or cannot be read gives the
\* access error of the root with a count of 0 and an unchanged tree
C34_SweepsNeverAbort ==
    /\ [][ /\ (Sweeping /\ todo # <<>>) =>
                  /\ pc' = pc
                  /\ walkErr' = Nil
                  /\ \/ todo' = Tail(todo)
                     \/ todo' = Children(fs, Head(todo)) \o Tail(todo)
                  /\ Len(errLog') > Len(errLog) => firstEncounteredError' # Nil
           /\ (Sweeping /\ pc' = "idle") =>
                  /\ todo = <<>>
                  /\ ret'.err = firstEncounteredError ]_vars
    /\ [](\A i \in 1..Len(calls) :
              calls[i].op \in {"restore", "clean"} =>
                  /\ \A P \in ReachedBackups(calls[i].before) :
                         InSeq(IO(SweepOp(calls[i].op), P), calls[i].io)
                  /\ ~ReadDirOK(calls[i].before, Root) =>
                         /\ calls[i].ret.err = Err("access", Root)
                         /\ calls[i].ret.count = 0
                         /\ calls[i].ret.paths = <<>>
                         /\ calls[i].after = calls[i].before)

\* a restoration failed to rename one backup, went on to a second one and
\* failed again, and returned the first error; the clean that followed
\* failed to remove both
C34_Witness ==
    /\ Consecutive(1, "restore", "clean")
    /\ calls[1].errs = <<Err("rename", <<NameA \o BAK>>), Err("rename", <<NameC \o BAK>>)>>
    /\ calls[1].ret.err = Err("rename", <<NameA \o BAK>>)
    /\ calls[1].ret.count = 0
    /\ calls[2].errs = <<Err("remove", <<NameA \o BAK>>), Err("remove", <<NameC \o BAK>>)>>
    /\ calls[2].ret.err = Err("remove", <<NameA \o BAK>>)

\* the callback of PerformReplacement is about to run on a selected file of
\* a request with backups
AtBackedUpFile == AtSelectedFile /\ opts.ShouldBackup

\* the selected regular files the traversal of tree f reaches
ReachedSelected(f) == {p \in RegularFiles(f) : Visible(f, p) /\ Selected(p)}

\* the content file p of tree f has when a replacement with backups that
\* meets no error visits it: the backup of the file it is named after, when
\* that file is selected, and the content it has in f otherwise
RECURSIVE VisitedContent(_, _)
VisitedContent(f, p) ==
    IF HasSuffix(Base(p), BAK) /\ originalPath(p) \in ReachedSelected(f)
    THEN VisitedContent(f, originalPath(p))
    ELSE f[p].content

\* replacements with backups that returned no error
BackedUpRuns ==
    {i \in 1..Len(calls) :
        calls[i].op = "replace" /\ opts.ShouldBackup /\ calls[i].ret.err = Nil}

ReturnsAfterBoth ==
    /\ pc = "replace"
    /\ pc' = "idle"
    /\ walkErr # Nil
    /\ firstEncounteredError # Nil

\* C36: when filepath.Walk returned the pattern error and an error had been
\* recorded before it, PerformReplacement returns the pattern error, which
\* is not the recorded error, together with the list and the counter as
\* they are; so a finished run that reported errors and met the pattern
\* error returned the pattern error and none of the reported ones
C36_PatternErrorOverRecorded ==
    /\ [][ ReturnsAfterBoth =>
               /\ walkErr = Err("pattern", opts.Pattern)
               /\ ret'.err = walkErr
               /\ ret'.err # firstEncounteredError
               /\ firstEncounteredError' = firstEncounteredError
               /\ ret'.paths = modifiedFiles
               /\ ret'.count = filesProcessed ]_vars
    /\ [](\A i \in 1..Len(calls) :
              (calls[i].op = "replace" /\ calls[i].ret.err # Nil
                 /\ ~InSeq(calls[i].ret.err, calls[i].errs)) =>
                  calls[i].ret.err.kind \in {"pattern", "empty"})

\* the traversal reported that the names of a directory could not be read,
\* then met the pattern error at a file; the run returned the pattern error
\* while the recorded error is the access error
C36_Witness ==
    /\ pc = "idle"
    /\ calls # <<>>
    /\ calls[Len(calls)].op = "replace"
    /\ calls[Len(calls)].errs # <<>>
    /\ calls[Len(calls)].errs[1].kind = "access"
    /\ firstEncounteredError = calls[Len(calls)].errs[1]
    /\ ret = calls[Len(calls)].ret
    /\ ret.err = Err("pattern", opts.Pattern)
    /\ walkErr = ret.err

\* the traversal of tree f reaches no regular file
NoFileReached(f) == \A p \in RegularFiles(f) : ~Visible(f, p)

\* tree f has its root and holds only directories, which can all be reached
\* and have their names read
DirectoriesOnly(f) == Exists(f, Root) /\ \A d \in DOMAIN f : ReadDirOK(f, d)

PatternAccepts(name) ==
    \/ opts.Pattern \in {<<>>, <<"*">>}
    \/ Match(opts.Pattern, name).err = NoErr /\ Match(opts.Pattern, name).matched

\* the callback of PerformReplacement is about to run on a regular file
\* whose name ends in ".bak" and is accepted by the pattern
AtBakNamedFile ==
    /\ pc = "replace"
    /\ todo # <<>>
    /\ LstatOK(fs, Head(todo))
    /\ IsRegular(fs, Head(todo))
    /\ HasSuffix(Base(Head(todo)), BAK)
    /\ PatternAccepts(Base(Head(todo)))

\* C38: the callback of PerformReplacement called for a file P.bak whose
\* name the pattern accepts counts it; with ShouldBackup it copies it to
\* P.bak.bak when the copy can be made; and when the file can be read,
\* contains OldText and can be written, it is rewritten with OldText
\* replaced and appended to the modified list
C38_BakFilesNotExcluded ==
    [][ AtBakNamedFile =>
            LET P == Head(todo)
                Q == Join(Parent(P), Base(P) \o BAK)
            IN /\ filesProcessed' = filesProcessed + 1
               /\ InSeq(IO("read", P), StepIO)
               /\ (opts.ShouldBackup /\ ReadFileOK(fs, P) /\ WriteFileOK(fs, Q)) =>
                      /\ InSeq(IO("write", Q), StepIO)
                      /\ Exists(fs', Q)
                      /\ fs'[Q].content = fs[P].content
               /\ (ReadFileOK(fs, P) /\ Contains(fs[P].content, opts.OldText)
                      /\ WriteFileOK(fs, P)) =>
                      /\ InSeq(IO("write", P), StepIO)
                      /\ fs'[P].content =
                             ReplaceAll(fs[P].content, opts.OldText, opts.NewText)
                      /\ modifiedFiles' = Append(modifiedFiles, P) ]_vars

\* a replacement with pattern "*" and backups on a tree that held a.bak
\* counted it, copied it to a.bak.bak, rewrote it and listed it
C38_Witness ==
    /\ calls # <<>>
    /\ calls[1].op = "replace"
    /\ opts.Pattern = <<"*">>
    /\ opts.ShouldBackup
    /\ opts.OldText # opts.NewText
    /\ ~Exists(calls[1].before, <<NameA>>)
    /\ Exists(calls[1].before, <<NameA \o BAK>>)
    /\ ~Exists(calls[1].before, <<NameA \o BAK \o BAK>>)
    /\ calls[1].ret = [op |-> "replace", paths |-> <<<<NameA \o BAK>>>>, count |-> 1,
                       err |-> Nil]
    /\ calls[1].after[<<NameA \o BAK \o BAK>>].content
           = calls[1].before[<<NameA \o BAK>>].content
    /\ calls[1].after[<<NameA \o BAK>>].content
           # calls[1].before[<<NameA \o BAK>>].content

\* main has gone past flag.Parse and the choice of what to run
Dispatched == cli.phase \notin {"none", "start"}

\* main runs engine op, only it, and only once
RunsOnly(op) ==
    /\ cli.mode = op
    /\ wiz = NoWiz
    /\ pc \in {"idle", op}
    /\ Len(calls) <= 1
    /\ \A i \in 1..Len(calls) : calls[i].op = op
    /\ cli.phase = "exited" => (Len(calls) = 1 /\ pc = "idle")

\* C39: with -version main prints the version and exits with status 0, and
\* no wizard and no engine runs; otherwise with -wizard the wizard runs,
\* whatever the other flags; otherwise -clean runs PerformClean only,
\* otherwise -restore runs PerformRestore only, otherwise a non-empty -old
\* runs PerformReplacement only; the engine is called once
C39_OneOperationByPrecedence ==
    Dispatched =>
        LET fl == cli.flags
        IN /\ fl.version =>
                  /\ cli.mode = "version"
                  /\ cli.phase = "exited"
                  /\ cli.exit = 0
                  /\ cli.stdout = <<Msg("PhotonSR version")>>
                  /\ wiz = NoWiz
                  /\ calls = <<>>
                  /\ pc = "idle"
           /\ (~fl.version /\ fl.wizard) => (cli.mode = "wizard" /\ wiz # NoWiz)
           /\ (~fl.version /\ ~fl.wizard /\ fl.clean) => RunsOnly("clean")
           /\ (~fl.version /\ ~fl.wizard /\ ~fl.clean /\ fl.restore) => RunsOnly("restore")
           /\ (~fl.version /\ ~fl.wizard /\ ~fl.clean /\ ~fl.restore
                 /\ opts.OldText # <<>>) => RunsOnly("replace")

\* main was run with -clean, -restore and -old together: it has cleaned the
\* backup, has restored and replaced nothing, and has exited
C39_Witness ==
    /\ cli.phase = "exited"
    /\ ~cli.flags.version /\ ~cli.flags.wizard
    /\ cli.flags.clean /\ cli.flags.restore /\ opts.OldText # <<>>
    /\ Len(calls) = 1
    /\ calls[1].op = "clean"
    /\ calls[1].ret.count = 1
    /\ cli.exit = 0
    /\ Exists(fs, <<NameA>>) /\ fs[<<NameA>>] = calls[1].before[<<NameA>>]
    /\ ~Exists(fs, <<NameA \o BAK>>)

====
